---- MODULE Spec2Model ----
(***************************************************************************)
(* Model of psyclone.domain.lfric.KernCallArgList: the class that derives  *)
(* the ordered argument list of an LFRic kernel call, the parallel list of *)
(* PSyIR reference nodes, the variable-access ledger and the positions of  *)
(* nlayers / nqp / ndf in the argument list.                               *)
(*                                                                         *)
(* Names and display texts are sequences of string tokens ("f1" "_proxy"   *)
(* "%" "data"), so that text building is concatenation and two texts are   *)
(* equal exactly when the Fortran strings are equal.                       *)
(***************************************************************************)
EXTENDS Integers, Sequences, FiniteSets, TLC

VARIABLES
    kern,                \* the kernel call site (read-only input)
    use_va,              \* TRUE when a VariablesAccessInfo is supplied
    arglist,             \* ArgOrdering._arglist: list of display texts
    psyir_arglist,       \* ArgOrdering._psyir_arglist: list of PSyIR nodes
    metadata_index,      \* ArgOrdering._arg_index_to_metadata_index
    var_accesses,        \* the access ledger, in insertion order
    symtab,              \* the symbol table of the invoke
    nlayers_positions,   \* KernCallArgList._nlayers_positions
    nqp_positions,       \* KernCallArgList._nqp_positions
    ndf_positions,       \* KernCallArgList._ndf_positions
    generate_called,     \* ArgOrdering._generate_called
    pc,                  \* "open", "generating" (inside generate()), "frozen"
    err,                 \* class of the exception that aborted the traversal
    last_call,           \* the emit method called last, its input and when
    query,               \* outcome of the last position-property read
    n_calls,             \* number of emit calls made so far
    children,            \* Call.children: the argument nodes, by identity
    named_args,          \* Call._named_args: pairs of node identity and name
    read,                \* what the last read of Call.named_args returned
    created,             \* the pairs Call.create was given
    checked              \* the last call of check_remaining_args, its outcome

vars == <<kern, use_va, arglist, psyir_arglist, metadata_index, var_accesses,
          symtab, nlayers_positions, nqp_positions, ndf_positions,
          generate_called, pc, err, last_call, query, n_calls,
          children, named_args, read, created, checked>>

\* The variables of the Call node and of the metadata check
call_vars == <<children, named_args, read, created>>
meta_vars == <<checked>>
\* The variables of the KernCallArgList
arg_vars == <<kern, use_va, arglist, psyir_arglist, metadata_index,
              var_accesses, symtab, nlayers_positions, nqp_positions,
              ndf_positions, generate_called, pc, err, last_call, query,
              n_calls>>

(***************************************************************************)
(* Bounds of the model.                                                    *)
(***************************************************************************)
\* Largest number of emit calls in one behaviour.
MaxCalls == 2
\* Largest vector size of a field vector.
MaxVec == 3
\* Largest numeric suffix tried when a symbol name is already taken.
MaxSuffix == 2

NoMeta == 0 - 1

AccessTypes == {"READ", "WRITE", "READWRITE", "INC"}

(***************************************************************************)
(* Symbol table.  A symbol is identified by its name; tags alias names.    *)
(***************************************************************************)
Symbol(name, kind, dtype, rank, import) ==
    [name |-> name, kind |-> kind, dtype |-> dtype, rank |-> rank,
     import |-> import]

SymNames(t) == {y.name : y \in t.syms}

lookup_with_tag(t, tag) ==
    IF \E p \in t.tags : p.tag = tag
    THEN (CHOOSE p \in t.tags : p.tag = tag).name
    ELSE <<>>

HasTag(t, tag) == \E p \in t.tags : p.tag = tag

\* SymbolTable.next_available_name: the root name, or the root name with
\* the first free numeric suffix.
next_available_name(t, root) ==
    IF root \notin SymNames(t) THEN root
    ELSE LET free == {n \in 1..MaxSuffix :
                        (root \o <<"_", ToString(n)>>) \notin SymNames(t)}
             n == CHOOSE k \in free : \A j \in free : k <= j
         IN  root \o <<"_", ToString(n)>>

\* SymbolTable.new_symbol(name, tag=tag, ...): a new symbol under a name
\* that is free in the table, registered under the tag when one is given.
new_symbol(t, root, tag, kind, dtype, rank, import) ==
    LET name == next_available_name(t, root)
    IN  [syms |-> t.syms \cup {Symbol(name, kind, dtype, rank, import)},
         tags |-> IF tag = <<>> THEN t.tags
                  ELSE t.tags \cup {[tag |-> tag, name |-> name]}]

\* SymbolTable.find_or_create_integer_symbol / find_or_create_array /
\* find_or_create_tag: the symbol already registered under the tag, else a
\* new one.
find_or_create_tag(t, root, tag, kind, dtype, rank) ==
    IF HasTag(t, tag) THEN t
    ELSE new_symbol(t, root, tag, kind, dtype, rank, <<>>)

(***************************************************************************)
(* PSyIR nodes.                                                            *)
(***************************************************************************)
Node(kind, symbol, indices, members, value) ==
    [kind |-> kind, symbol |-> symbol, indices |-> indices,
     members |-> members, value |-> value]

Reference(sym) == Node("Reference", sym, <<>>, <<>>, "")
Literal(value) == Node("Literal", <<>>, <<>>, <<>>, value)
Range == Node("Range", <<>>, <<>>, <<>>, ":")
ArrayReference(sym, indices) ==
    Node("ArrayReference", sym, indices, <<>>, "")
StructureReference(sym, members) ==
    Node("StructureReference", sym, <<>>, members, "")
ArrayOfStructuresReference(sym, indices, members) ==
    Node("ArrayOfStructuresReference", sym, indices, members, "")

(***************************************************************************)
(* The state of one KernCallArgList as a record, so that the methods are   *)
(* operators from state to state and compose as the Python calls do.       *)
(***************************************************************************)
Self ==
    [arglist |-> arglist, psyir_arglist |-> psyir_arglist,
     metadata_index |-> metadata_index, var_accesses |-> var_accesses,
     symtab |-> symtab, nlayers_positions |-> nlayers_positions,
     nqp_positions |-> nqp_positions, ndf_positions |-> ndf_positions,
     err |-> err]

AccessEvent(sig, mode, comp) == [sig |-> sig, mode |-> mode, comp |-> comp]

\* VariablesAccessInfo.add_access(Signature(name), mode, kern, component)
add_access(s, va, sig, mode, comp) ==
    IF va
    THEN [s EXCEPT !.var_accesses = Append(@, AccessEvent(sig, mode, comp))]
    ELSE s

\* ArgOrdering.psyir_append
psyir_append(s, node) ==
    [s EXCEPT !.psyir_arglist = Append(@, node)]

\* ArgOrdering.append(var_name, var_accesses, var_access_name, mode,
\*                    metadata_posn)
append(s, var_name, va, var_access_name, mode, metadata_posn) ==
    LET s1 == [s EXCEPT !.arglist = Append(@, var_name),
                        !.metadata_index = Append(@, metadata_posn)]
    IN  add_access(s1, va,
                   IF var_access_name # <<>> THEN var_access_name
                   ELSE var_name,
                   mode, <<>>)

\* ArgOrdering.extend(list_var_name, var_accesses): append each in turn.
RECURSIVE extend(_, _, _)
extend(s, list_var_name, va) ==
    IF list_var_name = <<>> THEN s
    ELSE extend(append(s, Head(list_var_name), va, <<>>, "READ", NoMeta),
                Tail(list_var_name), va)

\* ArgOrdering.num_args
num_args(s) == Len(s.arglist)

\* ArgOrdering.append_integer_reference(name, tag=None): the integer symbol
\* with that tag (default: the name) is found or created and a Reference
\* to it is appended to the PSyIR list.
append_integer_reference(s, name, tag) ==
    LET tg == IF tag = <<>> THEN name ELSE tag
        t1 == find_or_create_tag(s.symtab, name, tg, "DataSymbol",
                                 "INTEGER", 0)
    IN  psyir_append([s EXCEPT !.symtab = t1],
                     Reference(lookup_with_tag(t1, tg)))

\* ArgOrdering.get_array_reference(array_name, indices, intrinsic_type):
\* the table after the array symbol with tag array_name has been found or
\* created.
get_array_symtab(s, array_name, indices, intrinsic_type) ==
    find_or_create_tag(s.symtab, array_name, array_name, "DataSymbol",
                       intrinsic_type, Len(indices))

\* ArgOrdering.append_array_reference(array_name, indices, intrinsic_type)
append_array_reference(s, array_name, indices, intrinsic_type) ==
    LET t1 == get_array_symtab(s, array_name, indices, intrinsic_type)
    IN  psyir_append([s EXCEPT !.symtab = t1],
                     ArrayReference(lookup_with_tag(t1, array_name),
                                    indices))

\* ArgOrdering.append_array_reference(..., symbol=var_sym): the symbol is
\* given, nothing is looked up.
append_array_reference_sym(s, sym, indices) ==
    psyir_append(s, ArrayReference(sym, indices))

\* Name of the symbol appended last by append_*_reference
SymOf(s, tag) == lookup_with_tag(s.symtab, tag)

\* sym = self.append_integer_reference(name, tag)
\* self.append(sym.name, var_accesses)
integer_arg(s, name, tag, va) ==
    LET s1 == append_integer_reference(s, name, tag)
    IN  append(s1, SymOf(s1, IF tag = <<>> THEN name ELSE tag), va, <<>>,
               "READ", NoMeta)

\* The text of an index list: ":" for every Range, then the text of the
\* current cell, as in f"(:,:,{cell_ref_name})"
RECURSIVE index_text(_)
index_text(parts) ==
    IF Len(parts) = 1 THEN Head(parts)
    ELSE Head(parts) \o <<",">> \o index_text(Tail(parts))
Indexed(ranges, cell_name) ==
    <<"(">> \o index_text([i \in 1..ranges |-> <<":">>] \o <<cell_name>>)
            \o <<")">>

\* The symbol of an array argument followed by the text of its indices
ArrayText(s, tag, suffix) == SymOf(s, tag) \o suffix

\* sym = self.append_array_reference(array_name, indices, intrinsic_type)
\* self.append(f"{sym.name}<suffix>", var_accesses [, mode, metadata_posn])
array_arg(s, array_name, indices, intrinsic_type, suffix, va, mode, posn) ==
    LET s1 == append_array_reference(s, array_name, indices, intrinsic_type)
    IN  append(s1, ArrayText(s1, array_name, suffix), va, <<>>, mode, posn)

\* The same with var_access_name=sym.name
array_arg_named(s, array_name, indices, intrinsic_type, suffix, va) ==
    LET s1 == append_array_reference(s, array_name, indices, intrinsic_type)
    IN  append(s1, ArrayText(s1, array_name, suffix), va,
               SymOf(s1, array_name), "READ", NoMeta)

\* self.append_array_reference(var_sym.name, indices, ..., symbol=var_sym)
\* self.append(f"{var_sym.name}<suffix>", var_accesses,
\*             var_access_name=var_sym.name)
symbol_arg(s, var_sym, indices, suffix, va) ==
    append(append_array_reference_sym(s, var_sym, indices),
           var_sym \o suffix, va, var_sym, "READ", NoMeta)


(***************************************************************************)
(* Collaborators of KernCallArgList that live outside this file: the       *)
(* kernel's arguments, its function spaces and the name tables of the      *)
(* LFRic API.                                                              *)
(***************************************************************************)
\* FunctionSpace.ndf_name / undf_name / map_name / get_basis_name /
\* get_diff_basis_name
ndf_name(fs) == <<"ndf_">> \o fs.mangled_name
undf_name(fs) == <<"undf_">> \o fs.mangled_name
map_name(fs) == <<"map_">> \o fs.mangled_name
basis_name_qr(fs, qr_var) == <<"basis_">> \o fs.mangled_name \o <<"_">> \o qr_var
basis_name_on(fs, fspace) ==
    <<"basis_">> \o fs.mangled_name \o <<"_on_">> \o fspace.mangled_name
diff_basis_name_qr(fs, qr_var) ==
    <<"diff_basis_">> \o fs.mangled_name \o <<"_">> \o qr_var
diff_basis_name_on(fs, fspace) ==
    <<"diff_basis_">> \o fs.mangled_name \o <<"_on_">> \o fspace.mangled_name

\* DynCMAOperators.cma_same_fs_params / cma_diff_fs_params
cma_same_fs_params ==
    <<"nrow", "bandwidth", "alpha", "beta", "gamma_m", "gamma_p">>
cma_diff_fs_params ==
    <<"nrow", "ncol", "bandwidth", "alpha", "beta", "gamma_m", "gamma_p">>

\* LFRicConstants().DATA_TYPE_MAP["operator"]
operator_module == <<"operator_mod">>
operator_proxy_type == <<"operator_proxy_type">>

\* DynKernelArguments.get_arg_on_space: the first argument that lives on
\* the function space; NoArg when there is none.
NoArg == [name |-> <<>>]
ArgsOnSpace(k, fs) ==
    {i \in 1..Len(k.args) : fs.orig_name \in k.args[i].fss}
get_arg_on_space(k, fs) ==
    IF ArgsOnSpace(k, fs) = {} THEN NoArg
    ELSE k.args[CHOOSE i \in ArgsOnSpace(k, fs) :
                    \A j \in ArgsOnSpace(k, fs) : i <= j]

\* psyGen.args_filter(args, arg_meshes=[mesh])[0]
arg_on_mesh(k, mesh) ==
    k.args[CHOOSE i \in 1..Len(k.args) :
              /\ k.args[i].mesh = mesh
              /\ \A j \in 1..Len(k.args) : k.args[j].mesh = mesh => i <= j]

\* DynStencils.dofmap_size_symbol / dofmap_symbol: the stencil symbols of
\* an argument, found or created under a tag of their own.
stencil_size_root(arg) == arg.name \o <<"_stencil_size">>
stencil_dofmap_root(arg) == arg.name \o <<"_stencil_dofmap">>
dofmap_size_symbol(s, arg) ==
    [s EXCEPT !.symtab =
        find_or_create_tag(@, stencil_size_root(arg),
                           <<"AlgArgs_">> \o stencil_size_root(arg),
                           "DataSymbol", "INTEGER", 1)]
dofmap_symbol(s, arg) ==
    [s EXCEPT !.symtab =
        find_or_create_tag(@, stencil_dofmap_root(arg),
                           <<"AlgArgs_">> \o stencil_dofmap_root(arg),
                           "DataSymbol", "INTEGER", 3)]

\* FortranReader().psyir_from_expression(text, SymbolTable()): the texts
\* that parse as a constant expression without any symbol.
LiteralTexts == {<<"1.0">>, <<"2">>}
parses(text) == text \in LiteralTexts
psyir_from_expression(text) == Literal(text[1])

\* ArgOrdering.scalar: the text of the scalar goes on the argument list; a
\* named scalar is recorded with its declared access, a literal is not.
base_scalar(s, scalar_arg, va) ==
    append(s, scalar_arg.name, va /\ ~scalar_arg.is_literal, <<>>,
           scalar_arg.access, scalar_arg.metadata_index)

\* ArgOrdering.fs_common: the ndf of the function space.
base_fs_common(s, function_space, va) ==
    LET s1 == append_integer_reference(s, ndf_name(function_space), <<>>)
    IN  append(s1, SymOf(s1, ndf_name(function_space)), va, <<>>, "READ",
               NoMeta)

\* DynKern.colourmap: the name of the colour map of a coloured kernel: the
\* symbol tagged "cmap" of the invoke, or the colour map of the inter-grid
\* object for an inter-grid kernel.
colourmap(k, t) ==
    IF k.is_intergrid THEN <<"cmap_">> \o arg_on_mesh(k, "gh_coarse").name
    ELSE lookup_with_tag(t, <<"cmap">>)


(***************************************************************************)
(* KernCallArgList.  Every method is an operator from the state before     *)
(* the call to the state after it; k is self._kern and va tells whether a  *)
(* VariablesAccessInfo was passed.  A raised exception is recorded in err  *)
(* and the statements after the raise are not executed.                    *)
(***************************************************************************)
Raise(s, class) == [s EXCEPT !.err = class]

\* get_user_type without the look-up of the tag
get_user_type_fresh(s, module_name, user_type, name, tag, shape) ==
    LET tg == IF tag = <<>> THEN name ELSE tag
        t0 == s.symtab
        t1 == IF module_name \in SymNames(t0) THEN t0
              ELSE new_symbol(t0, module_name, <<>>, "ContainerSymbol",
                              "", 0, <<>>)
        t2 == IF user_type \in SymNames(t1) THEN t1
              ELSE new_symbol(t1, user_type, <<>>, "DataTypeSymbol",
                              "DeferredType", 0, module_name)
        t3 == new_symbol(t2, name, <<>>, "DataSymbol", user_type,
                         Len(shape), <<>>)
    IN  [s EXCEPT !.symtab =
            [syms |-> t3.syms,
             tags |-> {p \in t3.tags : p.tag # tg}
                      \cup {[tag |-> tg,
                              name |-> next_available_name(t2, name)]}]]

\* get_user_type(module_name, user_type, name, tag=None, shape=None)
get_user_type(s, module_name, user_type, name, tag, shape) ==
    LET tg == IF tag = <<>> THEN name ELSE tag
        t0 == s.symtab
        \* the module: looked up by name, else a new ContainerSymbol
        t1 == IF module_name \in SymNames(t0) THEN t0
              ELSE new_symbol(t0, module_name, <<>>, "ContainerSymbol",
                              "", 0, <<>>)
        \* find_or_create(user_type, DataTypeSymbol, ImportInterface(module))
        t2 == IF user_type \in SymNames(t1) THEN t1
              ELSE new_symbol(t1, user_type, <<>>, "DataTypeSymbol",
                              "DeferredType", 0, module_name)
        t3 == new_symbol(t2, name, tg, "DataSymbol", user_type,
                         Len(shape), <<>>)
    IN  IF HasTag(t0, tg) THEN s ELSE [s EXCEPT !.symtab = t3]

\* append_user_type(module_name, user_type, member_list, name, tag=None)
append_user_type(s, module_name, user_type, member_list, name, tag) ==
    LET s1 == get_user_type(s, module_name, user_type, name, tag, <<>>)
        sym == SymOf(s1, IF tag = <<>> THEN name ELSE tag)
    IN  psyir_append(s1, StructureReference(sym, member_list))

\* cell_ref_name(var_accesses): the state after the call, the text of the
\* current cell index and the node for it.
cell_ref_name(k, s, va) ==
    LET t1 == find_or_create_tag(s.symtab, <<"cell">>, <<"cell_loop_idx">>,
                                 "DataSymbol", "INTEGER", 0)
        cell_sym == lookup_with_tag(t1, <<"cell_loop_idx">>)
        t2 == find_or_create_tag(t1, <<"colour">>, <<"colours_loop_idx">>,
                                 "DataSymbol", "INTEGER", 0)
        colour_sym == lookup_with_tag(t2, <<"colours_loop_idx">>)
        indices == <<Reference(colour_sym), Reference(cell_sym)>>
        t3 == get_array_symtab([s EXCEPT !.symtab = t2], <<"cmap">>,
                               indices, "INTEGER")
        array_ref == ArrayReference(lookup_with_tag(t3, <<"cmap">>), indices)
        c0 == [s EXCEPT !.symtab = t3]
        c1 == add_access(c0, va, colour_sym, "READ", <<>>)
        c2 == add_access(c1, va, cell_sym, "READ", <<>>)
        c3 == add_access(c2, va, array_ref.symbol, "READ",
                         <<"colour", "cell">>)
    IN  IF k.coloured
        THEN [state |-> c3,
              name |-> colourmap(k, t3) \o <<"(", "colour", ",", "cell", ")">>,
              ref |-> array_ref]
        ELSE [state |-> add_access([s EXCEPT !.symtab = t1], va, <<"cell">>,
                                   "READ", <<>>),
              name |-> cell_sym,
              ref |-> Reference(cell_sym)]

\* cell_position(var_accesses)
cell_position(k, s, va) ==
    LET r == cell_ref_name(k, s, va)
    IN  append(psyir_append(r.state, r.ref), r.name, FALSE, <<>>, "READ",
               NoMeta)

\* cell_map(var_accesses)
cell_map(k, s, va) ==
    LET carg == arg_on_mesh(k, "gh_coarse").name
        farg == arg_on_mesh(k, "gh_fine").name
        r == cell_ref_name(k, s, va)
        s1 == array_arg(r.state, <<"cell_map_">> \o carg,
                        <<Range, Range, r.ref>>, "INTEGER",
                        Indexed(2, r.name), va, "READ", NoMeta)
        s2 == integer_arg(s1, <<"ncpc_">> \o farg \o <<"_">> \o carg
                                  \o <<"_x">>, <<>>, va)
        s3 == integer_arg(s2, <<"ncpc_">> \o farg \o <<"_">> \o carg
                                  \o <<"_y">>, <<>>, va)
    IN  integer_arg(s3, <<"ncell_">> \o farg, <<>>, va)

\* mesh_height with the position list assigned instead of extended
mesh_height_reset(k, s, va) ==
    IF k.iterates_over \notin {"cell_column", "domain"} THEN s
    ELSE LET s2 == integer_arg(s, <<"nlayers">>, <<>>, va)
         IN  [s2 EXCEPT !.nlayers_positions = <<num_args(s2)>>]

\* mesh_height with the test on the iteration domain left out
mesh_height_unguarded(k, s, va) ==
    LET s2 == integer_arg(s, <<"nlayers">>, <<>>, va)
    IN  [s2 EXCEPT !.nlayers_positions = Append(@, num_args(s2))]

\* mesh_height recording the number of arguments before it appends its own
mesh_height_before_append(k, s, va) ==
    IF k.iterates_over \notin {"cell_column", "domain"} THEN s
    ELSE LET s2 == integer_arg(s, <<"nlayers">>, <<>>, va)
         IN  [s2 EXCEPT !.nlayers_positions = Append(@, num_args(s))]

\* mesh_height(var_accesses)
mesh_height(k, s, va) ==
    IF k.iterates_over \notin {"cell_column", "domain"} THEN s
    ELSE LET s2 == integer_arg(s, <<"nlayers">>, <<>>, va)
         IN  [s2 EXCEPT !.nlayers_positions = Append(@, num_args(s2))]

\* scalar with the text of a literal taken as it is
scalar_unparsed(k, s, scalar_arg, va) ==
    LET s1 == base_scalar(s, scalar_arg, va)
    IN  IF scalar_arg.is_literal
        THEN psyir_append(s1, psyir_from_expression(scalar_arg.name))
        ELSE IF scalar_arg.name \in SymNames(s1.symtab)
             THEN psyir_append(s1, Reference(scalar_arg.name))
             ELSE Raise(s1, "KeyError")

\* scalar(scalar_arg, var_accesses)
scalar(k, s, scalar_arg, va) ==
    LET s1 == base_scalar(s, scalar_arg, va)
    IN  IF scalar_arg.is_literal
        THEN IF parses(scalar_arg.name)
             THEN psyir_append(s1, psyir_from_expression(scalar_arg.name))
             ELSE Raise(s1, "InternalError")
        ELSE IF scalar_arg.name \in SymNames(s1.symtab)
             THEN psyir_append(s1, Reference(scalar_arg.name))
             ELSE Raise(s1, "KeyError")

\* _mesh_ncell2d(var_accesses)
mesh_ncell2d(k, s, va) == integer_arg(s, <<"ncell_2d">>, <<>>, va)

\* _mesh_ncell2d_no_halos(var_accesses)
mesh_ncell2d_no_halos(k, s, va) ==
    integer_arg(s, <<"ncell_2d_no_halos">>, <<>>, va)

\* cma_operator with the comparison of the two spaces inverted
cma_components_swapped(arg) ==
    <<"matrix">> \o (IF arg.function_space_to = arg.function_space_from
                     THEN cma_diff_fs_params
                     ELSE cma_same_fs_params)

\* cma_operator: the components chosen from the two function spaces
cma_components(arg) ==
    <<"matrix">> \o (IF arg.function_space_to # arg.function_space_from
                     THEN cma_diff_fs_params
                     ELSE cma_same_fs_params)

\* cma_operator with the declared access given to every component
cma_component_declared(s, arg, component, va) ==
    IF component = "matrix"
    THEN array_arg(s, arg.name \o <<"_", component>>, <<Range, Range, Range>>,
                   "REAL", <<>>, va, arg.access, arg.metadata_index)
    ELSE LET s1 == append_integer_reference(s, arg.name \o <<"_", component>>,
                                            <<>>)
         IN  append(s1, SymOf(s1, arg.name \o <<"_", component>>), va, <<>>,
                    arg.access, arg.metadata_index)

\* cma_operator: the body of the loop over the components
cma_component(s, arg, component, va) ==
    IF component = "matrix"
    THEN array_arg(s, arg.name \o <<"_", component>>, <<Range, Range, Range>>,
                   "REAL", <<>>, va, arg.access, arg.metadata_index)
    ELSE LET s1 == append_integer_reference(s, arg.name \o <<"_", component>>,
                                            <<>>)
         IN  append(s1, SymOf(s1, arg.name \o <<"_", component>>), va, <<>>,
                    "READ", arg.metadata_index)

RECURSIVE cma_loop(_, _, _, _)
cma_loop(s, arg, components, va) ==
    IF components = <<>> THEN s
    ELSE cma_loop(cma_component(s, arg, Head(components), va), arg,
                  Tail(components), va)

\* cma_operator(arg, var_accesses)
cma_operator(k, s, arg, va) ==
    cma_loop(s, arg, cma_components(arg), va)

\* field_vector: the body of the loop over the components of the vector
field_vector_component(s, argvect, sym, idx) ==
    LET lit_ind == Literal(ToString(idx))
        ref == ArrayOfStructuresReference(sym, <<lit_ind>>, <<"data">>)
        text == sym \o <<"(", ToString(idx), ")", "%", "data">>
    IN  append(psyir_append(s, ref), text, FALSE, <<>>, "READ",
               argvect.metadata_index)

RECURSIVE field_vector_loop(_, _, _, _)
field_vector_loop(s, argvect, sym, idx) ==
    IF idx > argvect.vector_size THEN s
    ELSE field_vector_loop(field_vector_component(s, argvect, sym, idx),
                           argvect, sym, idx + 1)

\* field_vector with the loop stopping one component early
field_vector_short(k, s, argvect, va) ==
    LET lit_ind == Literal(ToString(argvect.vector_size))
        s1 == get_user_type(s, argvect.module_name, argvect.proxy_data_type,
                            argvect.proxy_name, <<>>, <<lit_ind>>)
        sym == SymOf(s1, argvect.proxy_name)
        s2 == field_vector_loop(s1, [argvect EXCEPT !.vector_size = @ - 1],
                                sym, 1)
    IN  add_access(s2, va, argvect.name, argvect.access, <<>>)

\* field_vector(argvect, var_accesses)
field_vector(k, s, argvect, va) ==
    LET lit_ind == Literal(ToString(argvect.vector_size))
        s1 == get_user_type(s, argvect.module_name, argvect.proxy_data_type,
                            argvect.proxy_name, <<>>, <<lit_ind>>)
        sym == SymOf(s1, argvect.proxy_name)
        s2 == field_vector_loop(s1, argvect, sym, 1)
    IN  add_access(s2, va, argvect.name, argvect.access, <<>>)

\* field with the access filed under the text of the argument
field_proxy_access(k, s, arg, va) ==
    LET text == arg.proxy_name \o <<"%", "data">>
        s1 == append(s, text, va, <<>>, arg.access, arg.metadata_index)
    IN  append_user_type(s1, arg.module_name, arg.proxy_data_type,
                         <<"data">>, arg.proxy_name, <<>>)

\* field without the reference node
field_no_node(k, s, arg, va) ==
    append(s, arg.proxy_name \o <<"%", "data">>, va, arg.name, arg.access,
           arg.metadata_index)

\* field(arg, var_accesses)
field(k, s, arg, va) ==
    LET text == arg.proxy_name \o <<"%", "data">>
        s1 == append(s, text, va, arg.name, arg.access, arg.metadata_index)
    IN  append_user_type(s1, arg.module_name, arg.proxy_data_type,
                         <<"data">>, arg.proxy_name, <<>>)


\* The symbol DynStencils has registered for the stencil of an argument
size_sym(s, arg) == SymOf(s, <<"AlgArgs_">> \o stencil_size_root(arg))
dofmap_sym(s, arg) == SymOf(s, <<"AlgArgs_">> \o stencil_dofmap_root(arg))

\* stencil_unknown_extent(arg, var_accesses)
stencil_unknown_extent(k, s, arg, va) ==
    LET r == cell_ref_name(k, dofmap_size_symbol(s, arg), va)
    IN  symbol_arg(r.state, size_sym(r.state, arg), <<r.ref>>,
                   Indexed(0, r.name), va)

\* stencil_2d_unknown_extent(arg, var_accesses)
stencil_2d_unknown_extent(k, s, arg, va) ==
    LET r == cell_ref_name(k, dofmap_size_symbol(s, arg), va)
    IN  symbol_arg(r.state, size_sym(r.state, arg), <<Range, r.ref>>,
                   Indexed(1, r.name), va)

\* stencil_2d_max_extent(arg, var_accesses)
stencil_2d_max_extent(k, s, arg, va) ==
    integer_arg(s, arg.name \o <<"_max_branch_length">>,
                <<"AlgArgs_">> \o arg.name \o <<"_length">>, va)

\* stencil_unknown_direction(arg, var_accesses)
stencil_unknown_direction(k, s, arg, va) ==
    append(append_integer_reference(s, arg.direction_arg,
                                    <<"AlgArgs_">> \o arg.direction_arg),
           arg.direction_arg, va, <<>>, "READ", NoMeta)

\* stencil with the cell as the first index of the dofmap
stencil_cell_first(k, s, arg, va) ==
    LET r == cell_ref_name(k, dofmap_symbol(s, arg), va)
    IN  symbol_arg(r.state, dofmap_sym(r.state, arg),
                   <<r.ref, Range, Range>>, Indexed(2, r.name), va)

\* stencil(arg, var_accesses)
stencil(k, s, arg, va) ==
    LET r == cell_ref_name(k, dofmap_symbol(s, arg), va)
    IN  symbol_arg(r.state, dofmap_sym(r.state, arg),
                   <<Range, Range, r.ref>>, Indexed(2, r.name), va)

\* stencil_2d(arg, var_accesses)
stencil_2d(k, s, arg, va) ==
    LET r == cell_ref_name(k, dofmap_symbol(s, arg), va)
    IN  symbol_arg(r.state, dofmap_sym(r.state, arg),
                   <<Range, Range, Range, r.ref>>, Indexed(3, r.name), va)

\* operator with the declared access given to the cell count as well
operator_declared(k, s, arg, va) ==
    LET s1 == append_user_type(s, operator_module, operator_proxy_type,
                               <<"ncell_3d">>, arg.proxy_name_indexed, <<>>)
        s2 == append(s1, arg.proxy_name_indexed \o <<"%", "ncell_3d">>, va,
                     <<>>, arg.access, NoMeta)
        s3 == append_user_type(s2, operator_module, operator_proxy_type,
                               <<"local_stencil">>, arg.proxy_name_indexed,
                               <<>>)
    IN  append(s3, arg.proxy_name_indexed \o <<"%", "local_stencil">>, va,
               <<>>, arg.access, arg.metadata_index)

\* operator(arg, var_accesses)
operator(k, s, arg, va) ==
    LET s1 == append_user_type(s, operator_module, operator_proxy_type,
                               <<"ncell_3d">>, arg.proxy_name_indexed, <<>>)
        s2 == append(s1, arg.proxy_name_indexed \o <<"%", "ncell_3d">>, va,
                     <<>>, "READ", NoMeta)
        s3 == append_user_type(s2, operator_module, operator_proxy_type,
                               <<"local_stencil">>, arg.proxy_name_indexed,
                               <<>>)
    IN  append(s3, arg.proxy_name_indexed \o <<"%", "local_stencil">>, va,
               <<>>, arg.access, arg.metadata_index)

\* fs_common recording the number of arguments before it appends its own
fs_common_before_append(k, s, function_space, va) ==
    IF k.iterates_over \notin {"cell_column", "domain"} THEN s
    ELSE LET s1 == base_fs_common(s, function_space, va)
         IN  [s1 EXCEPT !.ndf_positions =
                 Append(@, [position |-> num_args(s),
                            function_space |-> function_space.orig_name])]

\* fs_common(function_space, var_accesses)
fs_common(k, s, function_space, va) ==
    IF k.iterates_over \notin {"cell_column", "domain"} THEN s
    ELSE LET s1 == base_fs_common(s, function_space, va)
         IN  [s1 EXCEPT !.ndf_positions =
                 Append(@, [position |-> num_args(s1),
                            function_space |-> function_space.orig_name])]

\* fs_compulsory_field: the dofmap of the cell column
column_dofmap(k, s, function_space, va) ==
    LET r == cell_ref_name(k, s, va)
    IN  array_arg_named(r.state, map_name(function_space),
                        <<Range, r.ref>>, "INTEGER", Indexed(1, r.name), va)

\* fs_compulsory_field that passes the dofmap of the cell column to every
\* kernel
fs_compulsory_field_sliced(k, s, function_space, va) ==
    column_dofmap(k, integer_arg(s, undf_name(function_space), <<>>, va),
                  function_space, va)

\* fs_compulsory_field(function_space, var_accesses)
fs_compulsory_field(k, s, function_space, va) ==
    IF k.iterates_over = "domain"
    THEN array_arg_named(integer_arg(s, undf_name(function_space), <<>>, va),
                         map_name(function_space), <<Range, Range>>,
                         "INTEGER", <<>>, va)
    ELSE column_dofmap(k, integer_arg(s, undf_name(function_space), <<>>, va),
                       function_space, va)

\* fs_intergrid with the test of the mesh inverted
fs_intergrid_swapped(k, s, function_space, va) ==
    IF get_arg_on_space(k, function_space).mesh = "gh_coarse"
    THEN array_arg(integer_arg(fs_common(k, s, function_space, va),
                               undf_name(function_space), <<>>, va),
                   map_name(function_space), <<Range, Range>>, "INTEGER",
                   <<>>, va, "READ", NoMeta)
    ELSE fs_compulsory_field(k, s, function_space, va)

\* fs_intergrid(function_space, var_accesses)
fs_intergrid(k, s, function_space, va) ==
    IF get_arg_on_space(k, function_space).mesh = "gh_fine"
    THEN array_arg(integer_arg(fs_common(k, s, function_space, va),
                               undf_name(function_space), <<>>, va),
                   map_name(function_space), <<Range, Range>>, "INTEGER",
                   <<>>, va, "READ", NoMeta)
    ELSE fs_compulsory_field(k, s, function_space, va)

\* basis / diff_basis: one array per quadrature rule
RECURSIVE rule_arrays(_, _, _, _, _)
rule_arrays(s, names, indices, intrinsic_type, va) ==
    IF names = <<>> THEN s
    ELSE rule_arrays(array_arg(s, Head(names), indices, intrinsic_type, <<>>,
                               va, "READ", NoMeta),
                     Tail(names), indices, intrinsic_type, va)

\* basis with the loop over the evaluator targets left out
basis_rules_only(k, s, function_space, va) ==
    LET qr_names == [i \in 1..Len(k.qr_rules) |->
                        basis_name_qr(function_space, k.qr_rules[i].psy_name)]
    IN  rule_arrays(s, qr_names, <<Range, Range, Range, Range>>, "REAL", va)

\* basis(function_space, var_accesses)
basis(k, s, function_space, va) ==
    LET qr_names == [i \in 1..Len(k.qr_rules) |->
                        basis_name_qr(function_space, k.qr_rules[i].psy_name)]
        on_names == [i \in 1..Len(k.eval_targets) |->
                        basis_name_on(function_space, k.eval_targets[i])]
        s1 == rule_arrays(s, qr_names, <<Range, Range, Range, Range>>,
                          "REAL", va)
    IN  IF "gh_evaluator" \in k.eval_shapes
        THEN rule_arrays(s1, on_names, <<Range, Range, Range>>, "REAL", va)
        ELSE s1

\* diff_basis(function_space, var_accesses)
diff_basis(k, s, function_space, va) ==
    LET qr_names == [i \in 1..Len(k.qr_rules) |->
                        diff_basis_name_qr(function_space,
                                           k.qr_rules[i].psy_name)]
        on_names == [i \in 1..Len(k.eval_targets) |->
                        diff_basis_name_on(function_space, k.eval_targets[i])]
        s1 == rule_arrays(s, qr_names, <<Range, Range, Range, Range>>,
                          "INTEGER", va)
    IN  IF "gh_evaluator" \in k.eval_shapes
        THEN rule_arrays(s1, on_names, <<Range, Range, Range>>, "REAL", va)
        ELSE s1

\* field_bcs_kernel: the function space the loop over unique_fss stops at
\* (the first any_space_1, else the last one of the list).
bcs_fspace(k) ==
    LET hits == {i \in 1..Len(k.unique_fss) :
                    k.unique_fss[i].orig_name = "any_space_1"}
    IN  IF hits = {} THEN k.unique_fss[Len(k.unique_fss)]
        ELSE k.unique_fss[CHOOSE i \in hits : \A j \in hits : i <= j]

\* field_bcs_kernel without the test that the argument is a field
field_bcs_kernel_unchecked(k, s, function_space, va) ==
    LET farg == get_arg_on_space(k, bcs_fspace(k))
    IN  array_arg(s, <<"boundary_dofs_">> \o farg.name,
                  <<Range, Range>>, "INTEGER", <<>>, va, "READ", NoMeta)

\* field_bcs_kernel(function_space, var_accesses)
field_bcs_kernel(k, s, function_space, va) ==
    LET farg == get_arg_on_space(k, bcs_fspace(k))
    IN  IF ~farg.is_field THEN Raise(s, "GenerationError")
        ELSE array_arg(s, <<"boundary_dofs_">> \o farg.name,
                       <<Range, Range>>, "INTEGER", <<>>, va, "READ", NoMeta)

\* operator_bcs_kernel(function_space, var_accesses)
operator_bcs_kernel(k, s, function_space, va) ==
    array_arg(s, <<"boundary_dofs_">> \o k.args[1].name, <<Range, Range>>,
              "INTEGER", <<>>, va, "READ", NoMeta)

\* The generic name with the suffix of the rule left on
generic_name_unstripped(arg, rule) == arg

\* quad_rule: the generic name of a rule argument
generic_name(arg, rule) ==
    SubSeq(arg, 1, Len(arg) - Len(rule.psy_name) - 1)

\* quad_rule: the loop that defines the arguments of one rule using PSyIR
RECURSIVE quad_rule_args(_, _, _)
quad_rule_args(s, rule, args) ==
    IF args = <<>> THEN s
    ELSE LET arg == Head(args)
             g == generic_name(arg, rule)
         IN  IF g \in {<<"np_xy">>, <<"np_z">>, <<"nfaces">>, <<"np_xyz">>,
                       <<"nedges">>}
             THEN quad_rule_args(append_integer_reference(s, arg, <<>>),
                                 rule, Tail(args))
             ELSE IF g \in {<<"weights_xy">>, <<"weights_z">>}
             THEN quad_rule_args(
                      append_array_reference(s, arg, <<Range>>, "REAL"),
                      rule, Tail(args))
             ELSE IF g \in {<<"weights_xyz">>}
             THEN quad_rule_args(
                      append_array_reference(s, arg, <<Range, Range>>,
                                             "REAL"),
                      rule, Tail(args))
             ELSE Raise(s, "InternalError")

\* quad_rule recording the positions of a rule counted from zero
nqp_recorded_from_zero(s, rule) ==
    IF rule.shape = "gh_quadrature_xyoz"
    THEN [s EXCEPT !.nqp_positions =
             Append(@, [horizontal |-> num_args(s),
                        vertical |-> num_args(s) + 1])]
    ELSE s

\* quad_rule: the positions of the point counts of an XYoZ rule, recorded
\* before the arguments of the rule are appended
nqp_recorded(s, rule) ==
    IF rule.shape = "gh_quadrature_xyoz"
    THEN [s EXCEPT !.nqp_positions =
             Append(@, [horizontal |-> num_args(s) + 1,
                        vertical |-> num_args(s) + 2])]
    ELSE s

\* quad_rule: the loop over the rules of the kernel
RECURSIVE quad_rule_loop(_, _, _)
quad_rule_loop(s, rules, va) ==
    IF rules = <<>> THEN s
    ELSE LET rule == Head(rules)
             s1 == extend(nqp_recorded(s, rule), rule.kernel_args, va)
             s2 == quad_rule_args(s1, rule, rule.kernel_args)
         IN  IF rule.shape \notin {"gh_quadrature_xyoz", "gh_quadrature_edge",
                                   "gh_quadrature_face"}
             THEN Raise(s, "NotImplementedError")
             ELSE IF s2.err # "none" THEN s2
             ELSE quad_rule_loop(s2, Tail(rules), va)

\* quad_rule(var_accesses)
quad_rule(k, s, va) == quad_rule_loop(s, k.qr_rules, va)


(***************************************************************************)
(* Kernel call sites: the inputs of the traversal.                         *)
(***************************************************************************)
FS(orig_name, mangled_name) ==
    [orig_name |-> orig_name, mangled_name |-> mangled_name]
W0 == FS("w0", <<"w0">>)
W1 == FS("w1", <<"w1">>)
W2 == FS("w2", <<"w2">>)
ANY1 == FS("any_space_1", <<"aspc1_f1">>)

Arg(name, argument_type, access, fss, idx) ==
    [name |-> name, argument_type |-> argument_type, access |-> access,
     is_field |-> argument_type = "gh_field",
     is_literal |-> FALSE, is_vector |-> FALSE, vector_size |-> 1,
     proxy_name |-> name \o <<"_proxy">>,
     proxy_name_indexed |-> name \o <<"_proxy">>,
     module_name |-> IF argument_type = "gh_field" THEN <<"field_mod">>
                     ELSE <<"operator_mod">>,
     proxy_data_type |-> IF argument_type = "gh_field"
                         THEN <<"field_proxy_type">>
                         ELSE <<"operator_proxy_type">>,
     function_space_to |-> "", function_space_from |-> "",
     fss |-> fss, mesh |-> "", stencil |-> "none", direction_arg |-> <<>>,
     metadata_index |-> idx]

ScalarArg(name, idx) == Arg(name, "gh_scalar", "READ", {}, idx)
LiteralArg(text, idx) ==
    [ScalarArg(text, idx) EXCEPT !.is_literal = TRUE]
FieldArg(name, access, fs, idx) == Arg(name, "gh_field", access, {fs}, idx)
StencilArg(name, st, fs, idx) ==
    [FieldArg(name, "READ", fs, idx) EXCEPT
        !.stencil = st, !.direction_arg = name \o <<"_direction">>]
VectorArg(name, access, n, fs, idx) ==
    [FieldArg(name, access, fs, idx) EXCEPT
        !.is_vector = TRUE, !.vector_size = n]
OperatorArg(name, access, to, from, idx) ==
    [Arg(name, "gh_operator", access, {to, from}, idx) EXCEPT
        !.function_space_to = to, !.function_space_from = from]
CmaArg(name, access, to, from, idx) ==
    [Arg(name, "gh_columnwise_operator", access, {to, from}, idx) EXCEPT
        !.function_space_to = to, !.function_space_from = from,
        !.proxy_data_type = <<"columnwise_operator_proxy_type">>]
MeshArg(name, access, mesh, fs, idx) ==
    [FieldArg(name, access, fs, idx) EXCEPT !.mesh = mesh]

\* The quadrature rules a kernel can declare, with the arguments each
\* shape passes to the kernel.
QRule(shape, psy_name, generics) ==
    [shape |-> shape, psy_name |-> psy_name,
     kernel_args |-> [i \in 1..Len(generics) |->
                         <<generics[i], "_">> \o psy_name]]
QrXyoz == QRule("gh_quadrature_xyoz", <<"qr_xyoz">>,
                <<"np_xy", "np_z", "weights_xy", "weights_z">>)
QrFace == QRule("gh_quadrature_face", <<"qr_face">>,
                <<"nfaces", "np_xyz", "weights_xyz">>)
QrEdge == QRule("gh_quadrature_edge", <<"qr_edge">>,
                <<"nedges", "np_xyz", "weights_xyz">>)

Kernel(name, kind, args, unique_fss) ==
    [name |-> name, kind |-> kind, args |-> args, unique_fss |-> unique_fss,
     iterates_over |-> "cell_column", coloured |-> FALSE,
     is_intergrid |-> kind = "intergrid",
     qr_rules |-> <<>>, eval_shapes |-> {}, eval_targets |-> <<>>]

\* Kernels with scalar, field, stencil, field-vector and operator arguments
FieldKernels ==
    {Kernel("testkern", "lma",
            <<ScalarArg(<<"a">>, 0), FieldArg(<<"f1">>, acc, "w1", 1)>>,
            <<W1>>) : acc \in {"READ", "INC"}}
    \cup
    {Kernel("testkern_lit", "lma",
            <<LiteralArg(<<"1.0">>, 0),
              FieldArg(<<"f1">>, "READWRITE", "w1", 1)>>,
            <<W1>>)}
    \cup
    {Kernel("testkern_stencil", "lma",
            <<FieldArg(<<"f1">>, "INC", "w1", 0),
              StencilArg(<<"f2">>, st, "w2", 1)>>,
            <<W1, W2>>) : st \in {"cross", "cross2d", "xory1d"}}
    \cup
    {Kernel("testkern_vector", "lma",
            <<VectorArg(<<"chi">>, acc, n, "w0", 0)>>,
            <<W0>>) : acc \in {"READ", "INC"}, n \in 1..MaxVec}
    \cup
    {Kernel("testkern_operator", "lma",
            <<OperatorArg(<<"mm">>, acc, "w0", "w0", 0)>>,
            <<W0>>) : acc \in {"READ", "WRITE", "READWRITE"}}

\* Kernels with a column-wise (CMA) operator
CmaKernels ==
    {Kernel("columnwise_op", "cma",
            <<CmaArg(<<"cma_op1">>, acc, to, "w1", 0)>>,
            <<W1>>) : acc \in {"READ", "WRITE", "READWRITE"},
                      to \in {"w1", "w2"}}

\* Inter-grid kernels: a field on the coarse and one on the fine mesh
IntergridKernels ==
    {Kernel("prolong", "intergrid",
            <<MeshArg(<<"fld_f">>, "INC", "gh_fine", "w1", 0),
              MeshArg(<<"fld_c">>, "READ", "gh_coarse", "w2", 1)>>,
            <<W1, W2>>)}

\* Kernels with quadrature rules and evaluator targets
QrKernels ==
    {[Kernel("testkern_qr", "lma",
             <<FieldArg(<<"f1">>, "INC", "w1", 0)>>, <<W1>>)
        EXCEPT !.qr_rules = q, !.eval_shapes = e[1], !.eval_targets = e[2]] :
        q \in {<<QrXyoz>>, <<QrFace>>, <<QrEdge, QrXyoz>>},
        e \in {<<{}, <<>> >>, <<{"gh_evaluator"}, <<W0, W1>> >>,
                <<{"gh_evaluator"}, <<W0, W1, W2>> >>}}

\* Kernels that apply boundary conditions
BcsKernels ==
    {Kernel("enforce_bc_code", "bcs",
            <<FieldArg(<<"f1">>, "READWRITE", "any_space_1", 0)>>,
            <<ANY1>>),
     Kernel("enforce_operator_bc_code", "opbcs",
            <<OperatorArg(<<"op">>, "READWRITE", "w1", "w1", 0)>>,
            <<W1>>)}

\* A kernel is coloured only when it is called from a loop over cell
\* columns; kernels iterating over the domain or over dofs take scalar and
\* field arguments only.
Kernels ==
    {[kk EXCEPT !.coloured = c] :
        kk \in FieldKernels \cup CmaKernels \cup IntergridKernels
               \cup QrKernels \cup BcsKernels,
        c \in BOOLEAN}
    \cup
    {[kk EXCEPT !.iterates_over = it] :
        kk \in {x \in FieldKernels : x.name \in {"testkern", "testkern_lit"}},
        it \in {"domain", "dof"}}

\* Call sites that the checks made before the traversal would reject, but
\* that the methods still guard against: a quadrature rule of a shape that is
\* not supported, a rule with an argument whose generic name is not known,
\* a literal scalar whose text is not a constant expression, a kernel
\* applying boundary conditions whose only argument is an operator, and one
\* whose field is not on any_space_1.
QrBroken == QRule("gh_quadrature_broken", <<"qr_broken">>,
                  <<"np_xy", "weights_xy">>)
QrBadLast == QRule("gh_quadrature_xyoz", <<"qr_xyoz">>,
                   <<"np_xy", "np_z", "weights_xy", "weights_q">>)
QrBadFirst == QRule("gh_quadrature_face", <<"qr_face">>,
                    <<"npoints", "np_xyz", "weights_xyz">>)

UncheckedKernels ==
    {[Kernel("testkern_qr", "lma",
             <<FieldArg(<<"f1">>, "INC", "w1", 0)>>, <<W1>>)
        EXCEPT !.qr_rules = q] :
        q \in {<<QrBroken>>, <<QrBroken, QrXyoz>>, <<QrXyoz, QrBroken>>,
                <<QrFace, QrBroken>>, <<QrBadLast>>, <<QrBadFirst>>,
                <<QrEdge, QrBadLast>>}}
    \cup
    {Kernel("testkern_lit", "lma",
            <<LiteralArg(<<"invalid">>, 0),
              FieldArg(<<"f1">>, "READWRITE", "w1", 1)>>,
            <<W1>>)}
    \cup
    {Kernel("enforce_bc_code", "bcs",
            <<OperatorArg(<<"op">>, "READWRITE", "any_space_1",
                          "any_space_1", 0)>>,
            <<ANY1>>)}
    \cup
    {Kernel("enforce_bc_code", "bcs",
            <<FieldArg(<<"f1">>, "READWRITE", "w1", 0)>>,
            <<W1>>)}

\* The symbols the invoke has declared before the kernel call is built:
\* the named scalar arguments and, possibly, an algorithm-layer variable
\* that is called "cell".
InitSymtab(k, clash) ==
    [syms |-> {Symbol(k.args[i].name, "DataSymbol", "REAL", 0, <<>>) :
                  i \in {j \in 1..Len(k.args) :
                            /\ k.args[j].argument_type = "gh_scalar"
                            /\ ~k.args[j].is_literal}}
              \cup (IF clash
                    THEN {Symbol(<<"cell">>, "DataSymbol", "REAL", 0, <<>>)}
                    ELSE {}),
     tags |-> {}]


(***************************************************************************)
(* The position properties.                                                *)
(***************************************************************************)
NoQuery == [what |-> "none", status |-> "none", data |-> <<>>]
Failed(what) == [what |-> what, status |-> "InternalError", data |-> <<>>]
Returned(what, data) == [what |-> what, status |-> "ok", data |-> data]

\* nlayers_positions without the test of _generate_called
get_nlayers_positions_unguarded(called, s) ==
    Returned("nlayers_positions", s.nlayers_positions)

\* nlayers_positions (property)
get_nlayers_positions(called, s) ==
    IF ~called THEN Failed("nlayers_positions")
    ELSE Returned("nlayers_positions", s.nlayers_positions)

\* nqp_positions (property)
get_nqp_positions(called, s) ==
    IF ~called THEN Failed("nqp_positions")
    ELSE Returned("nqp_positions", s.nqp_positions)

\* ndf_positions (property)
get_ndf_positions(called, s) ==
    IF ~called THEN Failed("ndf_positions")
    ELSE Returned("ndf_positions", s.ndf_positions)

(***************************************************************************)
(* The state machine.                                                      *)
(***************************************************************************)
\* No Call node has been created and no metadata has been checked
Unread == <<"unread">>
NoCall ==
    /\ children = <<>>
    /\ named_args = <<>>
    /\ read = Unread
    /\ created = <<>>
NoCheck == checked = [cls |-> "none", construct |-> "none", message |-> {},
                      outcome |-> "none", index |-> NoMeta]

\* KernCallArgList.__init__ on any kernel call site, with or without a
\* VariablesAccessInfo
Init ==
    /\ kern \in Kernels
    /\ use_va \in BOOLEAN
    /\ \E clash \in BOOLEAN : symtab = InitSymtab(kern, clash)
    /\ arglist = <<>>
    /\ psyir_arglist = <<>>
    /\ metadata_index = <<>>
    /\ var_accesses = <<>>
    /\ nlayers_positions = <<>>
    /\ nqp_positions = <<>>
    /\ ndf_positions = <<>>
    /\ generate_called = FALSE
    /\ pc = "open"
    /\ err = "none"
    /\ last_call = [op |-> "none", arg |-> 0, phase |-> "open"]
    /\ query = NoQuery
    /\ n_calls = 0
    /\ NoCall
    /\ NoCheck

\* The same on a call site that may be one of the unchecked ones
InitUnchecked ==
    /\ kern \in Kernels \cup UncheckedKernels
    /\ use_va \in BOOLEAN
    /\ \E clash \in BOOLEAN : symtab = InitSymtab(kern, clash)
    /\ arglist = <<>>
    /\ psyir_arglist = <<>>
    /\ metadata_index = <<>>
    /\ var_accesses = <<>>
    /\ nlayers_positions = <<>>
    /\ nqp_positions = <<>>
    /\ ndf_positions = <<>>
    /\ generate_called = FALSE
    /\ pc = "open"
    /\ err = "none"
    /\ last_call = [op |-> "none", arg |-> 0, phase |-> "open"]
    /\ query = NoQuery
    /\ n_calls = 0
    /\ NoCall
    /\ NoCheck

\* One call of an emit method, by generate() or, once generate() has
\* returned, by a caller that holds the object: the object takes the state
\* the method leaves, also when the method raises.
Emit(op, i, s) ==
    /\ pc \in {"generating", "frozen"}
    /\ err = "none"
    /\ n_calls < MaxCalls
    /\ arglist' = s.arglist
    /\ psyir_arglist' = s.psyir_arglist
    /\ metadata_index' = s.metadata_index
    /\ var_accesses' = s.var_accesses
    /\ symtab' = s.symtab
    /\ nlayers_positions' = s.nlayers_positions
    /\ nqp_positions' = s.nqp_positions
    /\ ndf_positions' = s.ndf_positions
    /\ err' = s.err
    /\ last_call' = [op |-> op, arg |-> i, phase |-> pc]
    /\ n_calls' = n_calls + 1
    /\ query' = NoQuery
    /\ UNCHANGED <<kern, use_va, generate_called, pc>>
    /\ UNCHANGED <<call_vars, meta_vars>>

ArgIdx == 1..Len(kern.args)
FsIdx == 1..Len(kern.unique_fss)

\* ArgOrdering.generate(): sets _generate_called, then runs the traversal
GenerateBegin ==
    /\ pc = "open"
    /\ pc' = "generating"
    /\ generate_called' = TRUE
    /\ query' = NoQuery
    /\ UNCHANGED <<kern, use_va, arglist, psyir_arglist, metadata_index,
                   var_accesses, symtab, nlayers_positions, nqp_positions,
                   ndf_positions, err, last_call, n_calls>>
    /\ UNCHANGED <<call_vars, meta_vars>>

\* generate() returns
GenerateEnd ==
    /\ pc = "generating"
    /\ err = "none"
    /\ pc' = "frozen"
    /\ query' = NoQuery
    /\ UNCHANGED <<kern, use_va, arglist, psyir_arglist, metadata_index,
                   var_accesses, symtab, nlayers_positions, nqp_positions,
                   ndf_positions, generate_called, err, last_call, n_calls>>
    /\ UNCHANGED <<call_vars, meta_vars>>

CellPosition == Emit("cell_position", 0, cell_position(kern, Self, use_va))

CellMap ==
    /\ kern.is_intergrid
    /\ Emit("cell_map", 0, cell_map(kern, Self, use_va))

MeshHeight == Emit("mesh_height", 0, mesh_height(kern, Self, use_va))

Scalar ==
    \E i \in ArgIdx :
        /\ kern.args[i].argument_type = "gh_scalar"
        /\ Emit("scalar", i, scalar(kern, Self, kern.args[i], use_va))

MeshNcell2d ==
    /\ kern.kind = "cma"
    /\ Emit("_mesh_ncell2d", 0, mesh_ncell2d(kern, Self, use_va))

MeshNcell2dNoHalos ==
    /\ kern.iterates_over = "domain"
    /\ kern.kind = "lma"
    /\ Emit("_mesh_ncell2d_no_halos", 0,
            mesh_ncell2d_no_halos(kern, Self, use_va))

CmaOperator ==
    \E i \in ArgIdx :
        /\ kern.args[i].argument_type = "gh_columnwise_operator"
        /\ Emit("cma_operator", i,
                cma_operator(kern, Self, kern.args[i], use_va))

FieldVector ==
    \E i \in ArgIdx :
        /\ kern.args[i].is_vector
        /\ Emit("field_vector", i,
                field_vector(kern, Self, kern.args[i], use_va))

Field ==
    \E i \in ArgIdx :
        /\ kern.args[i].is_field
        /\ ~kern.args[i].is_vector
        /\ Emit("field", i, field(kern, Self, kern.args[i], use_va))

StencilUnknownExtent ==
    \E i \in ArgIdx :
        /\ kern.args[i].stencil \in {"cross", "xory1d"}
        /\ Emit("stencil_unknown_extent", i,
                stencil_unknown_extent(kern, Self, kern.args[i], use_va))

Stencil2dUnknownExtent ==
    \E i \in ArgIdx :
        /\ kern.args[i].stencil = "cross2d"
        /\ Emit("stencil_2d_unknown_extent", i,
                stencil_2d_unknown_extent(kern, Self, kern.args[i], use_va))

Stencil2dMaxExtent ==
    \E i \in ArgIdx :
        /\ kern.args[i].stencil = "cross2d"
        /\ Emit("stencil_2d_max_extent", i,
                stencil_2d_max_extent(kern, Self, kern.args[i], use_va))

StencilUnknownDirection ==
    \E i \in ArgIdx :
        /\ kern.args[i].stencil = "xory1d"
        /\ Emit("stencil_unknown_direction", i,
                stencil_unknown_direction(kern, Self, kern.args[i], use_va))

Stencil ==
    \E i \in ArgIdx :
        /\ kern.args[i].stencil \in {"cross", "xory1d"}
        /\ Emit("stencil", i, stencil(kern, Self, kern.args[i], use_va))

Stencil2d ==
    \E i \in ArgIdx :
        /\ kern.args[i].stencil = "cross2d"
        /\ Emit("stencil_2d", i, stencil_2d(kern, Self, kern.args[i], use_va))

Operator ==
    \E i \in ArgIdx :
        /\ kern.args[i].argument_type = "gh_operator"
        /\ Emit("operator", i, operator(kern, Self, kern.args[i], use_va))

FsCommon ==
    \E j \in FsIdx :
        /\ ~kern.is_intergrid
        /\ Emit("fs_common", j,
                fs_common(kern, Self, kern.unique_fss[j], use_va))

FsCompulsoryField ==
    \E j \in FsIdx :
        /\ ~kern.is_intergrid
        /\ Emit("fs_compulsory_field", j,
                fs_compulsory_field(kern, Self, kern.unique_fss[j], use_va))

FsIntergrid ==
    \E j \in FsIdx :
        /\ kern.is_intergrid
        /\ Emit("fs_intergrid", j,
                fs_intergrid(kern, Self, kern.unique_fss[j], use_va))

Basis ==
    \E j \in FsIdx :
        /\ kern.qr_rules # <<>> \/ kern.eval_shapes # {}
        /\ Emit("basis", j, basis(kern, Self, kern.unique_fss[j], use_va))

DiffBasis ==
    \E j \in FsIdx :
        /\ kern.qr_rules # <<>> \/ kern.eval_shapes # {}
        /\ Emit("diff_basis", j,
                diff_basis(kern, Self, kern.unique_fss[j], use_va))

FieldBcsKernel ==
    \E j \in FsIdx :
        /\ kern.kind = "bcs"
        /\ Emit("field_bcs_kernel", j,
                field_bcs_kernel(kern, Self, kern.unique_fss[j], use_va))

OperatorBcsKernel ==
    \E j \in FsIdx :
        /\ kern.kind = "opbcs"
        /\ Emit("operator_bcs_kernel", j,
                operator_bcs_kernel(kern, Self, kern.unique_fss[j], use_va))

QuadRule ==
    /\ kern.qr_rules # <<>>
    /\ Emit("quad_rule", 0, quad_rule(kern, Self, use_va))

\* The user types a caller asks get_user_type for, and the tags it gives
UserTypes ==
    {[module |-> <<"field_mod">>, type |-> <<"field_proxy_type">>],
     [module |-> <<"mesh_mod">>, type |-> <<"mesh_type">>]}
UserTags == {<<>>, <<"tag_a">>}

\* A call of get_user_type by a caller that holds the object; the symbol
\* returned is kept with the tag it was asked under
GetUserType ==
    \E ut \in UserTypes, tag \in UserTags, shape \in {<<>>, <<Range>>} :
        LET s == get_user_type(Self, ut.module, ut.type, <<"mesh">>, tag,
                               shape)
            tg == IF tag = <<>> THEN <<"mesh">> ELSE tag
        IN  /\ pc \in {"generating", "frozen"}
            /\ err = "none"
            /\ n_calls < MaxCalls
            /\ symtab' = s.symtab
            /\ last_call' = [op |-> "get_user_type", arg |-> 0, phase |-> pc]
            /\ n_calls' = n_calls + 1
            /\ query' = Returned("get_user_type",
                                 <<tg, lookup_with_tag(s.symtab, tg)>>)
            /\ UNCHANGED <<kern, use_va, arglist, psyir_arglist,
                           metadata_index, var_accesses, nlayers_positions,
                           nqp_positions, ndf_positions, generate_called, pc,
                           err>>
            /\ UNCHANGED <<call_vars, meta_vars>>

\* A read of one of the three position properties
Query ==
    /\ \E q \in {get_nlayers_positions(generate_called, Self),
                 get_nqp_positions(generate_called, Self),
                 get_ndf_positions(generate_called, Self)} : query' = q
    /\ UNCHANGED <<kern, use_va, arglist, psyir_arglist, metadata_index,
                   var_accesses, symtab, nlayers_positions, nqp_positions,
                   ndf_positions, generate_called, pc, err, last_call,
                   n_calls>>
    /\ UNCHANGED <<call_vars, meta_vars>>

Next ==
    \/ GenerateBegin
    \/ GenerateEnd
    \/ CellPosition
    \/ CellMap
    \/ MeshHeight
    \/ Scalar
    \/ MeshNcell2d
    \/ MeshNcell2dNoHalos
    \/ CmaOperator
    \/ FieldVector
    \/ Field
    \/ StencilUnknownExtent
    \/ Stencil2dUnknownExtent
    \/ Stencil2dMaxExtent
    \/ StencilUnknownDirection
    \/ Stencil
    \/ Stencil2d
    \/ Operator
    \/ FsCommon
    \/ FsCompulsoryField
    \/ FsIntergrid
    \/ Basis
    \/ DiffBasis
    \/ FieldBcsKernel
    \/ OperatorBcsKernel
    \/ QuadRule
    \/ Query

Spec == Init /\ [][Next]_vars

\* The traversal together with direct calls of get_user_type
NextUserType ==
    \/ Next
    \/ GetUserType

SpecUserType == Init /\ [][NextUserType]_vars

\* The traversal of any call site, the unchecked ones included
SpecUnchecked == InitUnchecked /\ [][Next]_vars


(***************************************************************************)
(* Properties.                                                             *)
(***************************************************************************)
\* The step is a call of the emit method op
Called(op) == n_calls' = n_calls + 1 /\ last_call'.op = op
\* The argument the method called last was given
LastArg == kern.args[last_call.arg]
\* What a step has put at the end of a list
Added(new, old) == SubSeq(new, Len(old) + 1, Len(new))
IsPrefix(old, new) ==
    Len(old) <= Len(new) /\ SubSeq(new, 1, Len(old)) = old
\* The ledger after the events evs have been recorded, if there is a ledger
Recorded(evs) ==
    var_accesses' = IF use_va THEN var_accesses \o evs ELSE var_accesses

\* C1: after every emit call the argument list and the list of reference
\* nodes have the same number of entries.
C1_Synchronised == Len(arglist) = Len(psyir_arglist)

C1_Witness ==
    /\ last_call.op = "quad_rule"
    /\ n_calls = 2
    /\ Len(arglist) = 5
    /\ Len(psyir_arglist) = 5

\* C2: a read of nlayers_positions, nqp_positions or ndf_positions fails
\* with the InternalError and yields no data as long as generate() has not
\* been called, and afterwards succeeds and yields the recorded positions.
C2_PositionGuard ==
    query.what # "none" =>
        IF ~generate_called
        THEN query.status = "InternalError" /\ query.data = <<>>
        ELSE /\ query.status = "ok"
             /\ query.what = "nlayers_positions"
                    => query.data = nlayers_positions
             /\ query.what = "nqp_positions" => query.data = nqp_positions
             /\ query.what = "ndf_positions" => query.data = ndf_positions

C2_Witness ==
    /\ pc = "frozen"
    /\ query.what = "nlayers_positions"
    /\ query.status = "ok"
    /\ query.data = <<1, 2>>

\* C3 as claimed: once generate() has returned, no emit call changes the
\* argument list, the reference list, the ledger or the position records.
C3_FrozenRejectsEmits ==
    [][pc = "frozen" =>
          UNCHANGED <<arglist, psyir_arglist, var_accesses,
                      nlayers_positions, nqp_positions, ndf_positions>>]_vars

\* C3 as amended: the transition to Frozen is never reversed, and an emit
\* call, also one made after it, only extends the argument list, the
\* reference list, the ledger and the position records.
C3_FrozenStaysAppendOnly ==
    [][/\ generate_called => generate_called'
       /\ pc = "frozen" => pc' = "frozen"
       /\ IsPrefix(arglist, arglist')
       /\ IsPrefix(psyir_arglist, psyir_arglist')
       /\ IsPrefix(var_accesses, var_accesses')
       /\ IsPrefix(nlayers_positions, nlayers_positions')
       /\ IsPrefix(nqp_positions, nqp_positions')
       /\ IsPrefix(ndf_positions, ndf_positions')]_vars

C3_Witness ==
    /\ last_call.phase = "frozen"
    /\ last_call.op = "mesh_height"
    /\ generate_called
    /\ nlayers_positions = <<1, 2>>

\* C4: mesh_height appends one layer-count argument, one reference node and
\* one nlayers position when the kernel iterates over cell_column or
\* domain, and otherwise leaves the lists, the ledger and the positions as
\* they are.
C4_MeshHeight ==
    [][Called("mesh_height") =>
          IF kern.iterates_over \in {"cell_column", "domain"}
          THEN /\ Len(arglist') = Len(arglist) + 1
               /\ Len(psyir_arglist') = Len(psyir_arglist) + 1
               /\ arglist'[Len(arglist')] =
                      lookup_with_tag(symtab', <<"nlayers">>)
               /\ psyir_arglist'[Len(psyir_arglist')].kind = "Reference"
               /\ nlayers_positions' =
                      Append(nlayers_positions, Len(arglist'))
          ELSE UNCHANGED <<arglist, psyir_arglist, var_accesses,
                           nlayers_positions, nqp_positions,
                           ndf_positions>>]_vars

C4_Witness ==
    /\ last_call.op = "mesh_height"
    /\ kern.iterates_over = "dof"
    /\ n_calls = 2
    /\ Len(arglist) = 1
    /\ nlayers_positions = <<>>

\* C5: one call of cell_position with a ledger appends one argument and one
\* node and records, for a coloured kernel, three READ events (the colour
\* loop variable, the cell loop variable, the colour map, in that order)
\* and, for a kernel that is not coloured, one READ event for the cell loop
\* variable.
C5_CellPosition ==
    [][Called("cell_position") /\ use_va =>
          LET cell_sym == lookup_with_tag(symtab', <<"cell_loop_idx">>)
              colour_sym == lookup_with_tag(symtab', <<"colours_loop_idx">>)
              cmap == lookup_with_tag(symtab', <<"cmap">>)
              evs == Added(var_accesses', var_accesses)
          IN  /\ Len(arglist') = Len(arglist) + 1
              /\ Len(psyir_arglist') = Len(psyir_arglist) + 1
              /\ IsPrefix(var_accesses, var_accesses')
              /\ \A i \in 1..Len(evs) : evs[i].mode = "READ"
              /\ IF kern.coloured
                 THEN /\ Len(evs) = 3
                      /\ evs[1].sig = colour_sym
                      /\ evs[2].sig = cell_sym
                      /\ evs[3].sig = cmap
                      /\ psyir_arglist'[Len(psyir_arglist')].kind
                             = "ArrayReference"
                 ELSE /\ Len(evs) = 1
                      /\ evs[1].sig = cell_sym
                      /\ psyir_arglist'[Len(psyir_arglist')]
                             = Reference(cell_sym)]_vars

\* C6: field_vector on a vector of size N appends N arguments and N nodes,
\* for the components 1..N in ascending order, and records one access
\* event, under the name of the field with its declared access.
C6_FieldVector ==
    [][Called("field_vector") =>
          LET a == kern.args[last_call'.arg]
              n == a.vector_size
              sym == lookup_with_tag(symtab', a.proxy_name)
              texts == Added(arglist', arglist)
              nodes == Added(psyir_arglist', psyir_arglist)
          IN  /\ IsPrefix(arglist, arglist')
              /\ IsPrefix(psyir_arglist, psyir_arglist')
              /\ Len(texts) = n
              /\ Len(nodes) = n
              /\ \A i \in 1..n :
                    /\ texts[i] = sym \o <<"(", ToString(i), ")", "%", "data">>
                    /\ nodes[i].kind = "ArrayOfStructuresReference"
                    /\ nodes[i].symbol = sym
                    /\ nodes[i].indices = <<Literal(ToString(i))>>
                    /\ nodes[i].members = <<"data">>
              /\ Recorded(<<AccessEvent(a.name, a.access, <<>>)>>)]_vars

C6_Witness ==
    /\ last_call.op = "field_vector"
    /\ LastArg.vector_size = 3
    /\ LastArg.access = "INC"
    /\ use_va
    /\ Len(arglist) = 3
    /\ Len(var_accesses) = 1

\* C7: field appends one argument, the data member of the proxy of the
\* field both as text and as node, and records the access under the name
\* of the field itself with the declared access.
C7_Field ==
    [][Called("field") =>
          LET a == kern.args[last_call'.arg]
              node == psyir_arglist'[Len(psyir_arglist')]
          IN  /\ arglist' = Append(arglist, a.proxy_name \o <<"%", "data">>)
              /\ Len(psyir_arglist') = Len(psyir_arglist) + 1
              /\ IsPrefix(psyir_arglist, psyir_arglist')
              /\ node.kind = "StructureReference"
              /\ node.symbol = lookup_with_tag(symtab', a.proxy_name)
              /\ node.symbol = a.proxy_name
              /\ node.members = <<"data">>
              /\ Recorded(<<AccessEvent(a.name, a.access, <<>>)>>)]_vars

C7_Witness ==
    /\ last_call.op = "field"
    /\ LastArg.access = "INC"
    /\ use_va
    /\ Len(arglist) = 2
    /\ var_accesses[Len(var_accesses)].sig = <<"f1">>

\* C8: operator appends two arguments, first the ncell_3d of the operator
\* proxy, recorded as READ, then its local_stencil, recorded with the
\* declared access.
C8_Operator ==
    [][Called("operator") =>
          LET a == kern.args[last_call'.arg]
              ncell == a.proxy_name_indexed \o <<"%", "ncell_3d">>
              local == a.proxy_name_indexed \o <<"%", "local_stencil">>
              nodes == Added(psyir_arglist', psyir_arglist)
          IN  /\ arglist' = arglist \o <<ncell, local>>
              /\ IsPrefix(psyir_arglist, psyir_arglist')
              /\ Len(nodes) = 2
              /\ nodes[1].members = <<"ncell_3d">>
              /\ nodes[2].members = <<"local_stencil">>
              /\ \A i \in 1..2 :
                    /\ nodes[i].kind = "StructureReference"
                    /\ nodes[i].symbol = a.proxy_name_indexed
              /\ Recorded(<<AccessEvent(ncell, "READ", <<>>),
                            AccessEvent(local, a.access, <<>>)>>)]_vars

C8_Witness ==
    /\ last_call.op = "operator"
    /\ LastArg.access = "WRITE"
    /\ use_va
    /\ Len(arglist) = 2
    /\ var_accesses[1].mode = "READ"
    /\ var_accesses[2].mode = "WRITE"

\* The names cma_operator gives to the matrix and to the scalars of a set
CmaNames(a, params) ==
    [i \in 1..(Len(params) + 1) |->
        a.name \o <<"_", IF i = 1 THEN "matrix" ELSE params[i - 1]>>]

\* C9: cma_operator emits the matrix and then the scalars of one set in
\* the order of that set: the set for different spaces when the to-space
\* and the from-space differ, the set for the same space when they are the
\* same.
C9_CmaParameters ==
    [][Called("cma_operator") =>
          LET a == kern.args[last_call'.arg]
              texts == Added(arglist', arglist)
              nodes == Added(psyir_arglist', psyir_arglist)
              want == IF a.function_space_to = a.function_space_from
                      THEN CmaNames(a, cma_same_fs_params)
                      ELSE CmaNames(a, cma_diff_fs_params)
          IN  /\ IsPrefix(arglist, arglist')
              /\ IsPrefix(psyir_arglist, psyir_arglist')
              /\ texts = want
              /\ Len(nodes) = Len(want)
              /\ nodes[1].kind = "ArrayReference"
              /\ \A i \in 1..Len(want) :
                    /\ nodes[i].symbol = want[i]
                    /\ i > 1 => nodes[i].kind = "Reference"]_vars

C9_Witness ==
    /\ last_call.op = "cma_operator"
    /\ LastArg.function_space_to # LastArg.function_space_from
    /\ Len(arglist) = 8
    /\ arglist[3] = <<"cma_op1", "_", "ncol">>

\* C10: the matrix of a CMA operator is recorded with the declared access,
\* whether or not the two spaces are the same, and every scalar that
\* cma_operator emits is recorded as READ.
C10_CmaAccess ==
    [][Called("cma_operator") /\ use_va =>
          LET a == kern.args[last_call'.arg]
              evs == Added(var_accesses', var_accesses)
              texts == Added(arglist', arglist)
          IN  /\ IsPrefix(var_accesses, var_accesses')
              /\ Len(evs) = Len(texts)
              /\ evs[1].sig = a.name \o <<"_", "matrix">>
              /\ evs[1].mode = a.access
              /\ \A i \in 2..Len(evs) :
                    /\ evs[i].sig = texts[i]
                    /\ evs[i].mode = "READ"]_vars

C10_Witness ==
    /\ last_call.op = "cma_operator"
    /\ LastArg.access = "WRITE"
    /\ LastArg.function_space_to = LastArg.function_space_from
    /\ use_va
    /\ Len(var_accesses) = 7
    /\ var_accesses[1].mode = "WRITE"
    /\ var_accesses[7].mode = "READ"


\* The names basis (diff = FALSE) or diff_basis (diff = TRUE) has to pass
\* for a function space: one per quadrature rule, then, for an evaluator,
\* one per target space.
BasisNames(k, fs, diff) ==
    [i \in 1..Len(k.qr_rules) |->
        IF diff THEN diff_basis_name_qr(fs, k.qr_rules[i].psy_name)
        ELSE basis_name_qr(fs, k.qr_rules[i].psy_name)]
    \o (IF "gh_evaluator" \in k.eval_shapes
        THEN [i \in 1..Len(k.eval_targets) |->
                 IF diff THEN diff_basis_name_on(fs, k.eval_targets[i])
                 ELSE basis_name_on(fs, k.eval_targets[i])]
        ELSE <<>>)

\* C11: one call of basis, and one call of diff_basis, for a function space
\* appends R + T arguments for a kernel with R quadrature rules and an
\* evaluator with T target spaces, the rule-driven ones first, and R
\* arguments when the kernel has no evaluator; as many nodes are appended.
C11_BasisCount ==
    [][\A diff \in BOOLEAN :
        Called(IF diff THEN "diff_basis" ELSE "basis") =>
            LET fs == kern.unique_fss[last_call'.arg]
                R == Len(kern.qr_rules)
                T == Len(kern.eval_targets)
                n == IF "gh_evaluator" \in kern.eval_shapes THEN R + T ELSE R
            IN  /\ Len(arglist') = Len(arglist) + n
                /\ Len(psyir_arglist') = Len(psyir_arglist) + n
                /\ Added(arglist', arglist) = BasisNames(kern, fs, diff)
                /\ err' = "none"]_vars

C11_Witness ==
    /\ last_call.op = "basis"
    /\ n_calls = 1
    /\ Len(kern.qr_rules) = 2
    /\ Len(kern.eval_targets) = 3
    /\ "gh_evaluator" \in kern.eval_shapes
    /\ Len(arglist) = 5
    /\ arglist[3] = <<"basis_", "w1", "_on_", "w0">>


SupportedShapes ==
    {"gh_quadrature_xyoz", "gh_quadrature_edge", "gh_quadrature_face"}
\* The kernel declares a quadrature rule of a shape that is not supported
HasUnsupportedShape ==
    \E i \in 1..Len(kern.qr_rules) : kern.qr_rules[i].shape \notin SupportedShapes

\* C12: quad_rule on a kernel that declares a quadrature rule of an
\* unsupported shape, alone or at any position among supported rules, fails
\* with NotImplementedError and leaves the argument list, the node list and
\* the quadrature positions as they were before the call.
C12_UnsupportedShape ==
    [][(Called("quad_rule") /\ HasUnsupportedShape) =>
          /\ err' = "NotImplementedError"
          /\ arglist' = arglist
          /\ psyir_arglist' = psyir_arglist
          /\ nqp_positions' = nqp_positions]_vars


\* The symbol of a name in a symbol table
SymRec(t, name) == CHOOSE y \in t.syms : y.name = name

\* Generic names of quadrature arguments: integer scalars, real arrays of
\* rank 1 and real arrays of rank 2
IntegerGenerics == {"np_xy", "np_z", "nfaces", "np_xyz", "nedges"}
Rank1Generics == {"weights_xy", "weights_z"}
Rank2Generics == {"weights_xyz"}
\* The arguments of a rule whose name is one of the generic names gs
\* followed by the suffix of the rule
Suffixed(rule, gs) == {<<g, "_">> \o rule.psy_name : g \in gs}

\* The arguments of all the rules, in the order of the rules
RECURSIVE AllArgs(_)
AllArgs(rules) ==
    IF rules = <<>> THEN <<>>
    ELSE [i \in 1..Len(Head(rules).kernel_args) |->
             [arg |-> Head(rules).kernel_args[i], rule |-> Head(rules)]]
         \o AllArgs(Tail(rules))

\* The node appended for a quadrature argument is what its generic name
\* asks for
QuadNodeOk(node, t, a) ==
    LET sym == SymRec(t, node.symbol)
    IN  IF a.arg \in Suffixed(a.rule, IntegerGenerics)
        THEN node.kind = "Reference" /\ sym.dtype = "INTEGER" /\ sym.rank = 0
        ELSE IF a.arg \in Suffixed(a.rule, Rank1Generics)
        THEN /\ node.kind = "ArrayReference" /\ sym.dtype = "REAL"
             /\ sym.rank = 1 /\ node.indices = <<Range>>
        ELSE /\ node.kind = "ArrayReference" /\ sym.dtype = "REAL"
             /\ sym.rank = 2 /\ node.indices = <<Range, Range>>

\* C13: quad_rule on rules of supported shapes takes np_xy, np_z, nfaces,
\* np_xyz and nedges (before the suffix of the rule) as integer scalars,
\* weights_xy and weights_z as real arrays of rank 1 and weights_xyz as a
\* real array of rank 2; when an argument of a rule has any other generic
\* name the call fails with InternalError.
C13_GenericNames ==
    [][(Called("quad_rule") /\ ~HasUnsupportedShape) =>
          LET args == AllArgs(kern.qr_rules)
              known == \A i \in 1..Len(args) :
                          args[i].arg \in Suffixed(args[i].rule,
                                 IntegerGenerics \cup Rank1Generics
                                 \cup Rank2Generics)
              nodes == Added(psyir_arglist', psyir_arglist)
          IN  IF known
              THEN /\ err' = "none"
                   /\ Len(nodes) = Len(args)
                   /\ \A i \in 1..Len(args) :
                         /\ nodes[i].symbol = args[i].arg
                         /\ QuadNodeOk(nodes[i], symtab', args[i])
              ELSE err' = "InternalError"]_vars

C13_Witness ==
    /\ last_call.op = "quad_rule"
    /\ err = "InternalError"
    /\ kern.qr_rules = <<QrEdge, QrBadLast>>
    /\ Len(psyir_arglist) = 6

C13_WitnessKnown ==
    /\ last_call.op = "quad_rule"
    /\ err = "none"
    /\ n_calls = 1
    /\ kern.qr_rules = <<QrEdge, QrXyoz>>
    /\ Len(psyir_arglist) = 7
    /\ psyir_arglist[3].indices = <<Range, Range>>


\* What scalar does for the argument a when a literal whose text is not a
\* constant expression makes it fail with an error of the class given: no
\* node is appended for such a literal, and a named scalar gets a plain
\* Reference to the symbol the table already holds.
ScalarOutcome(a, class) ==
    IF a.is_literal
    THEN IF parses(a.name)
         THEN err' = "none"
         ELSE /\ err' = class
              /\ err' # "GenerationError"
              /\ psyir_arglist' = psyir_arglist
    ELSE /\ err' = "none"
         /\ a.name \in SymNames(symtab)
         /\ symtab' = symtab
         /\ Added(psyir_arglist', psyir_arglist) = <<Reference(a.name)>>

\* C14 as stated: scalar on a literal whose text is not a constant
\* expression fails with TypeError, which is not the validation error, and
\* appends no node; on a named scalar it appends a Reference to the
\* existing symbol.
C14_LiteralTypeError ==
    [][Called("scalar") =>
          ScalarOutcome(kern.args[last_call'.arg], "TypeError")]_vars

\* C14 amended: the error raised for a literal whose text is not a constant
\* expression is InternalError; no node is appended, the text of the literal
\* is already on the argument list.
C14_LiteralInternalError ==
    [][Called("scalar") =>
          /\ ScalarOutcome(kern.args[last_call'.arg], "InternalError")
          /\ Added(arglist', arglist) = <<kern.args[last_call'.arg].name>>]_vars

C14_Witness ==
    /\ last_call.op = "scalar"
    /\ n_calls = 1
    /\ LastArg.is_literal
    /\ LastArg.name = <<"invalid">>
    /\ err = "InternalError"
    /\ arglist = <<<<"invalid">>>>
    /\ psyir_arglist = <<>>


\* The field arguments of the kernel
FieldArgs == {i \in 1..Len(kern.args) : kern.args[i].is_field}

\* C15: field_bcs_kernel on a kernel without a field argument fails with
\* GenerationError and leaves the argument list, the node list and the
\* ledger as they were; on a kernel with a field argument it appends one
\* argument, the boundary-dofs array named after the field.
C15_FieldBcs ==
    [][Called("field_bcs_kernel") =>
          IF FieldArgs = {}
          THEN /\ err' = "GenerationError"
               /\ arglist' = arglist
               /\ psyir_arglist' = psyir_arglist
               /\ var_accesses' = var_accesses
          ELSE /\ err' = "none"
               /\ \E i \in FieldArgs :
                     LET name == <<"boundary_dofs_">> \o kern.args[i].name
                     IN  /\ Added(arglist', arglist) = <<name>>
                         /\ Added(psyir_arglist', psyir_arglist) =
                                <<ArrayReference(name, <<Range, Range>>)>>
                         /\ Recorded(<<AccessEvent(name, "READ", <<>>)>>)]_vars

C15_Witness ==
    /\ last_call.op = "field_bcs_kernel"
    /\ kern.args[1].argument_type = "gh_operator"
    /\ err = "GenerationError"
    /\ n_calls = 2
    /\ Len(arglist) = 1


\* The name is the root name or the root name with a numeric suffix
Named(name, root) ==
    name = root \/ \E n \in 1..MaxSuffix : name = root \o <<"_", ToString(n)>>

\* No name is declared twice, there is one symbol per tag, one container
\* symbol per module name and one type symbol per user-type name, and every
\* type symbol is imported from a container of the table
UniqueImports(t) ==
    /\ \A y1, y2 \in t.syms : y1.name = y2.name => y1 = y2
    /\ \A p1, p2 \in t.tags : p1.tag = p2.tag => p1 = p2
    /\ \A y1, y2 \in t.syms :
          (/\ y1.kind = y2.kind
           /\ y1.kind \in {"ContainerSymbol", "DataTypeSymbol"}
           /\ Named(y2.name, y1.name)) => y1 = y2
    /\ \A y \in t.syms :
          y.kind = "DataTypeSymbol" =>
              \E m \in t.syms : m.kind = "ContainerSymbol" /\ m.name = y.import

\* C16: get_user_type returns the symbol registered under the tag (the name
\* when no tag is given); when the tag is already registered the symbol
\* table is left as it is, so no variable, container or type symbol is
\* created, also when the request comes from field for an argument it has
\* met before; the table never holds two containers of one module nor two
\* type symbols of one user type.
C16_UserTypeIdempotent ==
    [][/\ UniqueImports(symtab')
       /\ Called("get_user_type") =>
             LET tg == query'.data[1]
                 sym == query'.data[2]
             IN  /\ sym # <<>>
                 /\ sym = lookup_with_tag(symtab', tg)
                 /\ HasTag(symtab, tg) =>
                       (symtab' = symtab /\ sym = lookup_with_tag(symtab, tg))
       /\ (Called("field")
           /\ HasTag(symtab, kern.args[last_call'.arg].proxy_name)) =>
             symtab' = symtab]_vars

C16_Witness ==
    /\ last_call.op = "get_user_type"
    /\ n_calls = 2
    /\ kern.iterates_over = "cell_column"
    /\ arglist = <<>>
    /\ Cardinality(symtab.tags) = 1
    /\ query.data = <<<<"tag_a">>, <<"mesh">>>>
    /\ \E y \in symtab.syms : y.kind = "ContainerSymbol"


\* The node for the cell the kernel is working on, in the table t: the entry
\* of the colour map for a coloured kernel, the cell loop index otherwise
CurrentCellRef(t) ==
    IF kern.coloured
    THEN ArrayReference(lookup_with_tag(t, <<"cmap">>),
                        <<Reference(lookup_with_tag(t, <<"colours_loop_idx">>)),
                          Reference(lookup_with_tag(t, <<"cell_loop_idx">>))>>)
    ELSE Reference(lookup_with_tag(t, <<"cell_loop_idx">>))

\* The ledger has gained events, the first and the last of them READs of
\* the two names, if there is a ledger
RecordedAround(first, last) ==
    IF use_va
    THEN LET evs == Added(var_accesses', var_accesses)
         IN  /\ IsPrefix(var_accesses, var_accesses')
             /\ Len(evs) >= 3
             /\ evs[1] = AccessEvent(first, "READ", <<>>)
             /\ evs[Len(evs)] = AccessEvent(last, "READ", <<>>)
    ELSE var_accesses' = var_accesses

\* C17: fs_compulsory_field appends two arguments, undf first and the dofmap
\* second.  A kernel that iterates over the domain gets the whole dofmap,
\* without a cell index and without a cell-index event in the ledger; every
\* other kernel gets the dofmap indexed by the current cell.
C17_CompulsoryField ==
    [][Called("fs_compulsory_field") =>
          LET fs == kern.unique_fss[last_call'.arg]
              args == Added(arglist', arglist)
              nodes == Added(psyir_arglist', psyir_arglist)
          IN  /\ err' = "none"
              /\ Len(args) = 2
              /\ Len(nodes) = 2
              /\ args[1] = undf_name(fs)
              /\ nodes[1] = Reference(undf_name(fs))
              /\ IF kern.iterates_over = "domain"
                 THEN /\ args[2] = map_name(fs)
                      /\ nodes[2] = ArrayReference(map_name(fs),
                                                   <<Range, Range>>)
                      /\ Recorded(<<AccessEvent(undf_name(fs), "READ", <<>>),
                                    AccessEvent(map_name(fs), "READ", <<>>)>>)
                 ELSE /\ SubSeq(args[2], 1, Len(map_name(fs)) + 3) =
                             map_name(fs) \o <<"(", ":", ",">>
                      /\ nodes[2] = ArrayReference(map_name(fs),
                                       <<Range, CurrentCellRef(symtab')>>)
                      /\ RecordedAround(undf_name(fs), map_name(fs))]_vars

C17_Witness ==
    /\ last_call.op = "fs_compulsory_field"
    /\ kern.iterates_over = "domain"
    /\ n_calls = 1
    /\ use_va
    /\ arglist = <<<<"undf_", "w1">>, <<"map_", "w1">>>>
    /\ Len(var_accesses) = 2


\* The mesh of the argument of the kernel that lives on a function space
MeshOf(fs) ==
    LET i == CHOOSE j \in 1..Len(kern.args) : fs.orig_name \in kern.args[j].fss
    IN  kern.args[i].mesh

\* C18: fs_intergrid for a function space of the fine mesh appends ndf (with
\* its position record), undf and the whole dofmap without index; for a
\* function space of the coarse mesh it does what fs_compulsory_field does:
\* undf and the dofmap of the current cell, and no ndf.
C18_Intergrid ==
    [][Called("fs_intergrid") =>
          LET fs == kern.unique_fss[last_call'.arg]
              args == Added(arglist', arglist)
              nodes == Added(psyir_arglist', psyir_arglist)
              same == fs_compulsory_field(kern, Self, fs, use_va)
          IN  /\ err' = "none"
              /\ IF MeshOf(fs) = "gh_fine"
                 THEN /\ args = <<ndf_name(fs), undf_name(fs), map_name(fs)>>
                      /\ nodes = <<Reference(ndf_name(fs)),
                                   Reference(undf_name(fs)),
                                   ArrayReference(map_name(fs),
                                                  <<Range, Range>>)>>
                      /\ ndf_positions' =
                            Append(ndf_positions,
                                   [position |-> Len(arglist) + 1,
                                    function_space |-> fs.orig_name])
                      /\ Recorded(<<AccessEvent(ndf_name(fs), "READ", <<>>),
                                    AccessEvent(undf_name(fs), "READ", <<>>),
                                    AccessEvent(map_name(fs), "READ", <<>>)>>)
                 ELSE /\ MeshOf(fs) = "gh_coarse"
                      /\ Len(args) = 2
                      /\ args[1] = undf_name(fs)
                      /\ nodes = <<Reference(undf_name(fs)),
                                   ArrayReference(map_name(fs),
                                       <<Range, CurrentCellRef(symtab')>>)>>
                      /\ ndf_positions' = ndf_positions
                      /\ arglist' = same.arglist
                      /\ psyir_arglist' = same.psyir_arglist
                      /\ var_accesses' = same.var_accesses
                      /\ symtab' = same.symtab]_vars

C18_Witness ==
    /\ last_call.op = "fs_intergrid"
    /\ n_calls = 2
    /\ Len(arglist) = 5
    /\ Len(ndf_positions) = 1
    /\ arglist[1] = <<"undf_", "w2">>
    /\ arglist[3] = <<"ndf_", "w1">>


\* The methods that pass a stencil array and the number of ":" each puts
\* before the cell
StencilRanges ==
    [stencil_unknown_extent |-> 0, stencil_2d_unknown_extent |-> 1,
     stencil |-> 2, stencil_2d |-> 3]

BaseName(text) ==
    LET cut == {i \in 1..Len(text) : text[i] \in {"(", "%"}}
    IN  IF cut = {} THEN text
        ELSE SubSeq(text, 1, (CHOOSE i \in cut : \A j \in cut : i <= j) - 1)

\* An event covers an argument text when it is recorded under the text, under
\* the variable the text starts with, or under the argument whose proxy the
\* variable is
Covers(e, text) ==
    \/ e.sig = text
    \/ e.sig = BaseName(text)
    \/ e.sig \o <<"_proxy">> = BaseName(text)

\* The texts of the literal scalar arguments of the kernel
LiteralNames ==
    {kern.args[i].name : i \in {j \in 1..Len(kern.args) :
                                   kern.args[j].is_literal}}

\* C20: when a ledger is supplied, every entry of the argument list that is
\* not a literal is covered by an event of the ledger, and no event is
\* recorded for a literal scalar argument.
C20_LedgerCovers ==
    use_va =>
        /\ \A i \in 1..Len(arglist) :
              arglist[i] \notin LiteralNames =>
                  \E j \in 1..Len(var_accesses) :
                      Covers(var_accesses[j], arglist[i])
        /\ \A j \in 1..Len(var_accesses) :
              var_accesses[j].sig \notin LiteralNames


\* The Fortran text of a list of texts, separated by commas
RECURSIVE Joined(_)
Joined(texts) ==
    IF texts = <<>> THEN <<>>
    ELSE IF Len(texts) = 1 THEN Head(texts)
    ELSE Head(texts) \o <<",">> \o Joined(Tail(texts))

\* The Fortran text of the members of a structure reference
RECURSIVE MemberText(_)
MemberText(members) ==
    IF members = <<>> THEN <<>>
    ELSE <<"%", Head(members)>> \o MemberText(Tail(members))

\* The Fortran text of a node: the value of a literal, the name of the
\* symbol of a reference, followed by the indices (left out when the whole
\* array is passed) and by the members
RECURSIVE NodeText(_)
NodeText(node) ==
    IF node.kind = "Literal" THEN <<node.value>>
    ELSE IF node.kind = "Range" THEN <<":">>
    ELSE node.symbol
         \o (IF \A i \in 1..Len(node.indices) : node.indices[i] = Range
             THEN <<>>
             ELSE <<"(">>
                  \o Joined([i \in 1..Len(node.indices) |->
                                NodeText(node.indices[i])])
                  \o <<")">>)
         \o MemberText(node.members)

\* C21: the two lists do not diverge: they have the same length after every
\* emit step, and the node at a position is the variable, with the members
\* and the indices, that the text at that position names; for the cell of a
\* coloured kernel the text names the colour map of the kernel and so does
\* the node.
C21_SameContent ==
    /\ Len(psyir_arglist) = Len(arglist)
    /\ \A i \in 1..Len(arglist) :
          i <= Len(psyir_arglist) => NodeText(psyir_arglist[i]) = arglist[i]

-----------------------------------------------------------------------------
\* The Call node of the PSyIR, as its tests use it: the children are the
\* argument nodes, _named_args pairs the identity of a node with its name,
\* and the named_args property reconciles the two whenever it is read.

\* The nodes a test can hold (op1, op2, ...), the names it gives, no name
MaxNodes == 4
Nodes == 1..MaxNodes
ArgNames == {"name1", "name2"}
NoName == "None"

\* No KernCallArgList is involved
NoArgList ==
    /\ kern = [name |-> <<>>]
    /\ use_va = FALSE
    /\ symtab = <<>>
    /\ arglist = <<>>
    /\ psyir_arglist = <<>>
    /\ metadata_index = <<>>
    /\ var_accesses = <<>>
    /\ nlayers_positions = <<>>
    /\ nqp_positions = <<>>
    /\ ndf_positions = <<>>
    /\ generate_called = FALSE
    /\ pc = "none"
    /\ err = "none"
    /\ last_call = [op |-> "none", arg |-> 0, phase |-> "none"]
    /\ query = NoQuery
    /\ n_calls = 0

\* The argument lists of Call.create: nodes op1.. in order, each with a name
\* or without one, no name given twice
CreateArgs ==
    {a \in UNION {[1..n -> [id : Nodes, name : ArgNames \cup {NoName}]] :
                    n \in 0..2} :
        /\ \A i \in 1..Len(a) : a[i].id = i
        /\ \A i, j \in 1..Len(a) :
              (i # j /\ a[i].name # NoName) => a[i].name # a[j].name}

\* The names of a list of pairs, the identities of a list of pairs
names_of(na) == [i \in 1..Len(na) |-> na[i].name]
ids_of(na) == {na[i].id : i \in 1..Len(na)}

\* Call._reconcile matching the entries by position
reconcile_by_position(ch, na) ==
    [i \in 1..Len(ch) |->
        IF i <= Len(na) THEN [id |-> ch[i], name |-> na[i].name]
        ELSE [id |-> ch[i], name |-> NoName]]

\* Call._reconcile: one entry per child, in child order; a child keeps the
\* entry that holds its identity, any other child gets no name
reconcile(ch, na) ==
    [i \in 1..Len(ch) |->
        IF \E j \in 1..Len(na) : na[j].id = ch[i]
        THEN na[CHOOSE j \in 1..Len(na) : na[j].id = ch[i]]
        ELSE [id |-> ch[i], name |-> NoName]]

\* A node that is neither a child nor known to the Call: a new Literal
Held == ids_of(created) \cup ids_of(named_args)
           \cup {children[i] : i \in 1..Len(children)}
IsNew(n) == n \in Nodes \ Held /\ \A m \in Nodes \ Held : n <= m

\* Call.create(routine, arguments)
InitCall ==
    /\ NoArgList
    /\ NoCheck
    /\ created \in CreateArgs
    /\ children = [i \in 1..Len(created) |-> created[i].id]
    /\ named_args = created
    /\ read = Unread

\* call.children.pop(i)
ChildrenPop ==
    /\ \E i \in 1..Len(children) :
          children' = [j \in 1..(Len(children) - 1) |->
                          IF j < i THEN children[j] ELSE children[j + 1]]
    /\ read' = Unread
    /\ UNCHANGED <<named_args, created, arg_vars, meta_vars>>

\* call.children.append(op)
ChildrenAppend ==
    /\ \E n \in Nodes : IsNew(n) /\ children' = Append(children, n)
    /\ read' = Unread
    /\ UNCHANGED <<named_args, created, arg_vars, meta_vars>>

\* call.children[i] = op
ChildrenReplace ==
    /\ \E i \in 1..Len(children), n \in Nodes :
          IsNew(n) /\ children' = [children EXCEPT ![i] = n]
    /\ read' = Unread
    /\ UNCHANGED <<named_args, created, arg_vars, meta_vars>>

\* call.named_args
NamedArgs ==
    /\ named_args' = reconcile(children, named_args)
    /\ read' = names_of(named_args')
    /\ UNCHANGED <<children, created, arg_vars, meta_vars>>

NextCall ==
    \/ ChildrenPop
    \/ ChildrenAppend
    \/ ChildrenReplace
    \/ NamedArgs

SpecCall == InitCall /\ [][NextCall]_vars

\* The name Call.create was given for a node, None for any other node
GivenName(n) ==
    IF n \in ids_of(created)
    THEN created[CHOOSE i \in 1..Len(created) : created[i].id = n].name
    ELSE NoName

\* C22: once named_args has been read after any removals, appends and
\* replacements of children, the list it returned has one entry per child in
\* child order, the name the child was created with for a child that
\* Call.create was given and None for a child put in directly, and the
\* internal list is as long as the children.
C22_NamedArgsReconciled ==
    read # Unread =>
        /\ Len(read) = Len(children)
        /\ \A i \in 1..Len(children) :
              i <= Len(read) => read[i] = GivenName(children[i])
        /\ Len(named_args) = Len(children)

\* A read after a named child was removed and a new one put in, one named
\* child still there
C22_Witness ==
    /\ read # Unread
    /\ \E i \in 1..Len(children) :
          children[i] \in ids_of(created) /\ read[i] # NoName
    /\ \E i \in 1..Len(children) : children[i] \notin ids_of(created)
    /\ \E i \in 1..Len(created) :
          /\ created[i].name # NoName
          /\ \A j \in 1..Len(children) : children[j] # created[i].id

-----------------------------------------------------------------------------
\* CommonMetaArgMetadata.check_remaining_args.  A message is the set of the
\* phrases it contains: the code only asks whether a phrase is in it.

\* The phrases the code looks for, and one it does not
Phrases == {"datatype descriptor", "access descriptor", "function space",
            "mesh_arg", "function_space_to", "function_space_from", "other"}

\* The metadata classes: for each phrase the index attribute the class
\* defines.  The base class defines the datatype, access and function space
\* indices; its subclasses add the others.
NoIndex == 0 - 1
MetaClass(name, indices) == [name |-> name, indices |-> indices]
BaseIndices == [p \in Phrases |->
                   CASE p = "datatype descriptor" -> 1
                     [] p = "access descriptor" -> 2
                     [] p = "function space" -> 3
                     [] OTHER -> NoIndex]
MetaClasses ==
    { MetaClass("ScalarArgMetadata", BaseIndices),
      MetaClass("FieldArgMetadata", BaseIndices),
      MetaClass("FieldVectorArgMetadata", BaseIndices),
      MetaClass("InterGridArgMetadata",
                [BaseIndices EXCEPT !["mesh_arg"] = 4]),
      MetaClass("OperatorArgMetadata",
                [BaseIndices EXCEPT !["function_space_to"] = 3,
                                    !["function_space_from"] = 4]),
      MetaClass("ColumnwiseOperatorArgMetadata",
                [BaseIndices EXCEPT !["function_space_to"] = 3,
                                    !["function_space_from"] = 4]) }

\* The arguments the constructor of a class checks: its messages name these
Checks(cls) ==
    CASE cls.name = "ScalarArgMetadata" ->
            {"datatype descriptor", "access descriptor"}
      [] cls.name \in {"FieldArgMetadata", "FieldVectorArgMetadata"} ->
            {"datatype descriptor", "access descriptor", "function space"}
      [] cls.name = "InterGridArgMetadata" ->
            {"datatype descriptor", "access descriptor", "function space",
             "mesh_arg"}
      [] OTHER ->
            {"datatype descriptor", "access descriptor",
             "function_space_to", "function_space_from"}

\* What cls(*metadata_args) does: it returns, or raises a ValueError
Constructed == [raised |-> "none", message |-> {}]
Constructions(cls) ==
    {Constructed} \cup
    {[raised |-> "ValueError", message |-> m] :
        m \in SUBSET (Checks(cls) \cup {"other"})}

\* The outcome of check_remaining_args
Outcome(cls, c, raised, index) ==
    [cls |-> cls.name, construct |-> c.raised, message |-> c.message,
     outcome |-> raised, index |-> index]

\* raise ValueError(f"At argument index '{index}' ..."), the index being an
\* attribute of the class
raise_at(cls, c, phrase) ==
    IF cls.indices[phrase] = NoIndex
    THEN Outcome(cls, c, "AttributeError", NoIndex)
    ELSE Outcome(cls, c, "ValueError", cls.indices[phrase])

\* check_remaining_args looking for the access descriptor first
check_remaining_args_access_first(cls, c) ==
    IF c.raised = "none" THEN Outcome(cls, c, "none", NoIndex)
    ELSE IF "access descriptor" \in c.message
         THEN raise_at(cls, c, "access descriptor")
    ELSE IF "datatype descriptor" \in c.message
         THEN raise_at(cls, c, "datatype descriptor")
    ELSE IF "function space" \in c.message
         THEN raise_at(cls, c, "function space")
    ELSE IF "mesh_arg" \in c.message
         THEN raise_at(cls, c, "mesh_arg")
    ELSE IF "function_space_to" \in c.message
         THEN raise_at(cls, c, "function_space_to")
    ELSE IF "function_space_from" \in c.message
         THEN raise_at(cls, c, "function_space_from")
    ELSE Outcome(cls, c, "InternalError", NoIndex)

\* check_remaining_args(cls, fparser2_tree, *metadata_args)
check_remaining_args(cls, c) ==
    IF c.raised = "none" THEN Outcome(cls, c, "none", NoIndex)
    ELSE IF "datatype descriptor" \in c.message
         THEN raise_at(cls, c, "datatype descriptor")
    ELSE IF "access descriptor" \in c.message
         THEN raise_at(cls, c, "access descriptor")
    ELSE IF "function space" \in c.message
         THEN raise_at(cls, c, "function space")
    ELSE IF "mesh_arg" \in c.message
         THEN raise_at(cls, c, "mesh_arg")
    ELSE IF "function_space_to" \in c.message
         THEN raise_at(cls, c, "function_space_to")
    ELSE IF "function_space_from" \in c.message
         THEN raise_at(cls, c, "function_space_from")
    ELSE Outcome(cls, c, "InternalError", NoIndex)

InitMeta ==
    /\ NoArgList
    /\ NoCall
    /\ NoCheck

CheckRemainingArgs ==
    /\ \E cls \in MetaClasses : \E c \in Constructions(cls) :
          checked' = check_remaining_args(cls, c)
    /\ UNCHANGED <<arg_vars, call_vars>>

NextMeta == CheckRemainingArgs

SpecMeta == InitMeta /\ [][NextMeta]_vars

\* The categories in the order they are tested
Categories == <<"datatype descriptor", "access descriptor", "function space",
                "mesh_arg", "function_space_to", "function_space_from">>
FirstCategory(m) ==
    Categories[CHOOSE i \in 1..Len(Categories) :
                  /\ Categories[i] \in m
                  /\ \A j \in 1..(i - 1) : Categories[j] \notin m]
ClassNamed(n) == CHOOSE cls \in MetaClasses : cls.name = n

\* C23: when the constructor returns, check_remaining_args raises nothing;
\* when it raises a ValueError whose message holds none of the six
\* categories, an InternalError is raised; otherwise a ValueError is raised
\* that names the class's argument index of the first category, in the order
\* datatype descriptor, access descriptor, function space, mesh_arg,
\* function_space_to, function_space_from, that the message holds.
C23_CheckRemainingArgs ==
    checked.cls # "none" =>
        IF checked.construct = "none" THEN checked.outcome = "none"
        ELSE IF \A i \in 1..Len(Categories) :
                   Categories[i] \notin checked.message
             THEN checked.outcome = "InternalError"
        ELSE /\ checked.outcome = "ValueError"
             /\ checked.index =
                   ClassNamed(checked.cls).indices[
                       FirstCategory(checked.message)]

\* A message that holds both the datatype and the access category: the
\* index named is the datatype one
C23_Witness ==
    /\ checked.outcome = "ValueError"
    /\ {"access descriptor", "datatype descriptor"} \subseteq checked.message
    /\ checked.index = 1

-----------------------------------------------------------------------------
\* The positions recorded during the traversal.

\* The indices of the argument list, in order, whose entry is the text txt
IsAt(txt, i) == arglist[i] = txt
RECURSIVE IndicesFrom(_, _)
IndicesFrom(txt, i) ==
    IF i > Len(arglist) THEN <<>>
    ELSE (IF IsAt(txt, i) THEN <<i>> ELSE <<>>) \o IndicesFrom(txt, i + 1)
IndicesOf(txt) == IndicesFrom(txt, 1)

\* C24: once the traversal is frozen, every recorded nlayers position is an
\* index between 1 and the length of the argument list, the positions are
\* strictly increasing, and the n-th position is the index of the n-th
\* layer-count argument in the list, the one the n-th recording call of
\* mesh_height appended.
C24_NlayersPositions ==
    pc = "frozen" =>
        /\ \A n \in 1..Len(nlayers_positions) :
              /\ 1 <= nlayers_positions[n]
              /\ nlayers_positions[n] <= Len(arglist)
        /\ \A n, m \in 1..Len(nlayers_positions) :
              n < m => nlayers_positions[n] < nlayers_positions[m]
        /\ nlayers_positions =
              IF HasTag(symtab, <<"nlayers">>)
              THEN IndicesOf(lookup_with_tag(symtab, <<"nlayers">>))
              ELSE <<>>

\* A frozen traversal with a layer count that is not the first argument
C24_Witness ==
    /\ pc = "frozen"
    /\ Len(nlayers_positions) = 1
    /\ nlayers_positions[1] = 2
    /\ Len(arglist) >= 2

\* The function space a method was called with last
LastFs == kern.unique_fss[last_call.arg]
\* The dof-count argument of a function space
NdfArg(t, fs) == lookup_with_tag(t, ndf_name(fs))
\* One more position record, for the argument at index p and the space fs
NdfRecorded(p, fs) ==
    /\ ndf_positions' =
          Append(ndf_positions,
                 [position |-> p, function_space |-> fs.orig_name])
    /\ p <= Len(arglist')
    /\ arglist'[p] = NdfArg(symtab', fs)
    /\ IsPrefix(arglist, arglist')

\* C25: a call of fs_common, or of fs_intergrid for the space of the fine
\* field, on a kernel that iterates over cell_column or domain adds exactly
\* one record, of the index of the dof-count argument the call appends and
\* of the original name of the function space; on any other kernel
\* fs_common leaves the lists and the positions as they are; and every
\* record kept is the index, in the argument list as it is later, of the
\* dof-count argument of the space it names.
C25_NdfPositions ==
    /\ [][/\ Called("fs_common") =>
                IF kern.iterates_over \in {"cell_column", "domain"}
                THEN /\ Len(arglist') = Len(arglist) + 1
                     /\ NdfRecorded(Len(arglist'), LastFs')
                ELSE UNCHANGED <<arglist, psyir_arglist, var_accesses,
                                 ndf_positions>>
           /\ (/\ Called("fs_intergrid")
               /\ get_arg_on_space(kern, LastFs').mesh = "gh_fine"
               /\ kern.iterates_over \in {"cell_column", "domain"})
                 => NdfRecorded(Len(arglist) + 1, LastFs')]_vars
    /\ [](\A n \in 1..Len(ndf_positions) :
             \E j \in FsIdx :
                /\ kern.unique_fss[j].orig_name =
                      ndf_positions[n].function_space
                /\ ndf_positions[n].position \in 1..Len(arglist)
                /\ arglist[ndf_positions[n].position] =
                      NdfArg(symtab, kern.unique_fss[j]))

\* Two calls of fs_common for two function spaces
C25_Witness ==
    /\ last_call.op = "fs_common"
    /\ Len(ndf_positions) = 2
    /\ ndf_positions[1].function_space # ndf_positions[2].function_space
    /\ ndf_positions[2].position = 2

\* fs_common on a kernel that iterates over dofs
C25_WitnessDof ==
    /\ last_call.op = "fs_common"
    /\ kern.iterates_over = "dof"
    /\ n_calls = 1

\* fs_intergrid for the space of the fine field, after another argument
C25_WitnessFine ==
    /\ last_call.op = "fs_intergrid"
    /\ Len(ndf_positions) = 1
    /\ ndf_positions[1].position = 2

\* The XYoZ rules of the kernel, in order, and the point-count arguments of
\* a rule
IsXyoz(rule) == rule.shape = "gh_quadrature_xyoz"
XyozRules == SelectSeq(kern.qr_rules, IsXyoz)
NpXy(rule) == <<"np_xy", "_">> \o rule.psy_name
NpZ(rule) == <<"np_z", "_">> \o rule.psy_name

\* C26: a call of quad_rule adds one position record for each XYoZ rule of
\* the kernel, in rule order, and none for a face or edge rule; the
\* horizontal and vertical values of a record are the indices at which that
\* call appended the np_xy and np_z arguments of the rule, and they stay the
\* indices of those arguments in the argument list as it is later.
C26_NqpPositions ==
    /\ [][Called("quad_rule") =>
             LET new == Added(nqp_positions', nqp_positions)
             IN  /\ IsPrefix(nqp_positions, nqp_positions')
                 /\ IsPrefix(arglist, arglist')
                 /\ Len(new) = Len(XyozRules)
                 /\ \A n \in 1..Len(new) :
                       /\ n <= Len(XyozRules)
                       /\ new[n].horizontal \in
                             (Len(arglist) + 1)..Len(arglist')
                       /\ new[n].vertical \in
                             (Len(arglist) + 1)..Len(arglist')
                       /\ arglist'[new[n].horizontal] = NpXy(XyozRules[n])
                       /\ arglist'[new[n].vertical] = NpZ(XyozRules[n])]_vars
    /\ [](\A n \in 1..Len(nqp_positions) :
             \E r \in 1..Len(XyozRules) :
                /\ nqp_positions[n].horizontal \in 1..Len(arglist)
                /\ nqp_positions[n].vertical \in 1..Len(arglist)
                /\ arglist[nqp_positions[n].horizontal] = NpXy(XyozRules[r])
                /\ arglist[nqp_positions[n].vertical] = NpZ(XyozRules[r]))

\* An edge rule followed by an XYoZ rule, after another argument: one
\* record, for the fifth and sixth argument
C26_Witness ==
    /\ last_call.op = "quad_rule"
    /\ kern.qr_rules = <<QrEdge, QrXyoz>>
    /\ nqp_positions = <<[horizontal |-> 5, vertical |-> 6]>>
    /\ Len(arglist) = 8

\* A face rule alone: no record
C26_WitnessFace ==
    /\ last_call.op = "quad_rule"
    /\ kern.qr_rules = <<QrFace>>
    /\ n_calls = 2
    /\ nqp_positions = <<>>
    /\ Len(arglist) > 3

-----------------------------------------------------------------------------
\* The events of the cell index.

\* The methods that index an argument by the current cell
CellIndexed ==
    {"cell_position", "cell_map", "stencil", "stencil_2d",
     "fs_compulsory_field"}
\* The READ events of a list of events that are recorded under a name, by
\* their places in the list
ReadsOf(evs, name) ==
    {i \in 1..Len(evs) : evs[i].sig = name /\ evs[i].mode = "READ"}

\* C27: with a ledger, every call of a method that indexes by the current
\* cell (cell_position, cell_map, stencil, stencil_2d, fs_compulsory_field on
\* a kernel that does not iterate over the domain) records exactly one READ
\* event for the cell loop variable and, for a coloured kernel, one for the
\* colour loop variable and one for the colour map, so that cell_position
\* followed by k such calls leaves k+1 of each; and these events come before
\* the event of the array argument the call appends.
C27_CellIndexEvents ==
    [][\A op \in CellIndexed :
        (/\ Called(op)
         /\ use_va
         /\ err' = "none"
         /\ op = "fs_compulsory_field" => kern.iterates_over # "domain")
        =>
            LET evs == Added(var_accesses', var_accesses)
                cell_sym == lookup_with_tag(symtab', <<"cell_loop_idx">>)
                colour_sym == lookup_with_tag(symtab', <<"colours_loop_idx">>)
                cmap == lookup_with_tag(symtab', <<"cmap">>)
                vars_read == IF kern.coloured
                             THEN {cell_sym, colour_sym, cmap}
                             ELSE {cell_sym}
            IN  /\ IsPrefix(var_accesses, var_accesses')
                /\ \A v \in vars_read :
                      /\ Cardinality(ReadsOf(evs, v)) = 1
                      /\ op # "cell_position" =>
                            \A i \in ReadsOf(evs, v) :
                               \E j \in (i + 1)..Len(evs) :
                                  Covers(evs[j],
                                         arglist'[Len(arglist) +
                                                  (IF op = "fs_compulsory_field"
                                                   THEN 2 ELSE 1)])]_vars

\* The same for a kernel whose cell loop variable is called "cell"
C27_WithoutClash ==
    [][(kern.coloured
          \/ lookup_with_tag(symtab', <<"cell_loop_idx">>) = <<"cell">>)
       => C27_CellIndexEvents!1]_vars

-----------------------------------------------------------------------------
\* The function spaces of the kernel whose original name is any_space_1
AnySpace1 ==
    {j \in FsIdx : kern.unique_fss[j].orig_name = "any_space_1"}

\* C28: field_bcs_kernel names the boundary-dofs array after the argument on
\* the function space any_space_1, and on a kernel that has no function
\* space any_space_1 it appends no argument and no node.
C28_BcsAnySpace ==
    [][Called("field_bcs_kernel") =>
          IF AnySpace1 = {}
          THEN /\ arglist' = arglist
               /\ psyir_arglist' = psyir_arglist
          ELSE err' = "none" =>
                  \E j \in AnySpace1 :
                     Added(arglist', arglist) =
                        << <<"boundary_dofs_">>
                           \o get_arg_on_space(kern, kern.unique_fss[j]).name >>
      ]_vars

\* The same for the kernels that have a function space any_space_1
C28_WithAnySpace ==
    [][AnySpace1 # {} => C28_BcsAnySpace!1]_vars

\* C29: cell_position on a kernel that is not coloured, with a ledger,
\* records its READ event under the name of the cell loop symbol, the symbol
\* tagged cell_loop_idx, which is the name it appends as the argument and
\* the symbol of the reference node, whatever the symbol table holds.
C29_CellSignature ==
    [][(Called("cell_position") /\ use_va /\ ~kern.coloured) =>
          LET evs == Added(var_accesses', var_accesses)
              text == arglist'[Len(arglist')]
              node == psyir_arglist'[Len(psyir_arglist')]
          IN  /\ Len(evs) = 1
              /\ evs[1].mode = "READ"
              /\ text = lookup_with_tag(symtab', <<"cell_loop_idx">>)
              /\ node.symbol = text
              /\ evs[1].sig = text]_vars

\* The same when the cell loop symbol could take the name "cell"
C29_NameFree ==
    [][lookup_with_tag(symtab', <<"cell_loop_idx">>) = <<"cell">>
       => C29_CellSignature!1]_vars

-----------------------------------------------------------------------------
\* The arrays a call has appended: the first R of them, one per quadrature
\* rule, are declared of rank 4 and of the type rule_type, the others, one
\* per target space, real and of rank 3
BasisArrays(R, rule_type) ==
    LET nodes == Added(psyir_arglist', psyir_arglist)
    IN  \A i \in 1..Len(nodes) :
           LET sym == SymRec(symtab', nodes[i].symbol)
               rank == IF i <= R THEN 4 ELSE 3
           IN  /\ nodes[i].kind = "ArrayReference"
               /\ Len(nodes[i].indices) = rank
               /\ sym.rank = rank
               /\ sym.dtype = IF i <= R THEN rule_type ELSE "REAL"

\* C30: basis and diff_basis declare their arrays alike: a real array of
\* rank 4 for every quadrature rule and a real array of rank 3 for every
\* target space of an evaluator.
C30_BasisTypes ==
    [][(Called("basis") \/ Called("diff_basis")) =>
          BasisArrays(Len(kern.qr_rules), "REAL")]_vars

\* What the two methods do: the ranks are as stated and the arrays are real,
\* but for the arrays diff_basis declares for the quadrature rules, which
\* are integer
C30_DiffBasisInteger ==
    [][/\ Called("basis") => BasisArrays(Len(kern.qr_rules), "REAL")
       /\ Called("diff_basis") => BasisArrays(Len(kern.qr_rules), "INTEGER")
      ]_vars

====
